---- MODULE Spec2Model ----
(***************************************************************************)
(* Verification development of the user-account backend: the verification- *)
(* code, action-token, session and OAuth-state lifecycles.                  *)
(*                                                                           *)
(* The datastore is a set of tables; every SQL statement is one atomic      *)
(* step.  A request handler is a process that walks through its statements; *)
(* its local variables (rows it has read, the clock value it has read) are  *)
(* kept in loc[p].  Time is a global integer clock advanced by Tick.        *)
(***************************************************************************)
EXTENDS Integers, Sequences, FiniteSets, TLC

----------------------------------------------------------------------------
(* Bounds of the model *)

\* The clock runs from 0 to MaxTime.
MaxTime == 2
\* The clock's range where requests interleave.
MaxTimeConc == 1
\* Requests received where requests interleave.
MaxCallsConc == 5
\* The clock's range for the session provider.
MaxTimeSess == 3
\* Rows ever inserted into verification_codes / action_tokens.
MaxCodeRows == 2
MaxTokenRows == 2
\* Notification goroutines in flight when a request that sends one is taken.
MaxOutbox == 1
\* Rows ever inserted into user_active_sessions / oauth_states.
MaxSessionRows == 2
MaxStateRows == 2

(* Configuration values (s.config.Verification.*, s.config.ResetToken.*,   *)
(* session.Config), in clock ticks.  Any positive value is a legal config. *)
TTLMinutes == 1
ResendCooldownSeconds == 1
MaxAttempts == 2
ResetTokenTTL == 1
SlidingTTL == 1
AbsoluteTTL == 2
\* time.Now().Add(5 * time.Minute), in clock ticks
OAuthStateTTL == 1

----------------------------------------------------------------------------
(* Input domains *)

Emails == {"a@x"}
\* A second account, which only registers.
OtherEmails == {"b@x"}
Names == {"n1", "n2"}
Passwords == {"pw1", "pw2"}
\* Plaintext 6-digit codes the generator may draw, and a caller may submit.
Codes == {"c1", "c2"}
Providers == {"google", "apple"}
\* A provider name the factory does not know.
OtherProviders == {"github"}

EmailVerify == "email_verify"
PasswordReset == "password_reset"
ChannelEmail == "email"

\* Request-handling tasks.  ConcProcs run interleaved; SeqProcs is a single
\* task issuing one call after the other; AcctProcs is a single task that
\* also keeps the tables as each of its calls found them.
AllProcs == {"p1", "p2", "s1", "a1"}
ConcProcs == {"p1", "p2"}
SeqProcs == {"s1"}
AcctProcs == {"a1"}

VARIABLES
    now,        \* the wall clock
    users,      \* table users: sequence of rows, id = index
    codes,      \* table verification_codes: sequence of rows, id = index
    tokens,     \* table action_tokens: set of rows
    nextToken,  \* number of action tokens generated so far
    sessions,   \* table user_active_sessions: set of rows
    nextSession,\* number of session ids generated so far
    oauth,      \* table oauth_states: set of rows
    nextState,  \* number of oauth states generated so far
    outbox,     \* number of notification goroutines spawned and not yet finished
    pc,         \* per task: the statement it is about to execute
    loc,        \* per task: its local variables
    hist,       \* history: what has been observed by callers so far
    calls       \* number of requests received so far

vars == <<now, users, codes, tokens, nextToken, sessions, nextSession,
          oauth, nextState, outbox, pc, loc, hist, calls>>

dbVerif == <<users, codes, tokens, nextToken>>
dbSess == <<sessions, nextSession>>
dbOAuth == <<oauth, nextState>>

----------------------------------------------------------------------------
(* Secrets *)

\* hashToken: SHA-256 of the secret, base64url encoded; deterministic and
\* collision free on the secrets of the model.
hashToken(secret) == <<"sha256", secret>>

\* hashPassword / checkPasswordHash: bcrypt.
hashPassword(password) == <<"bcrypt", password>>
checkPasswordHash(password, hash) == hash = <<"bcrypt", password>>

----------------------------------------------------------------------------
(* Rows *)

NoUser == [id |-> 0, firstName |-> "", lastName |-> "", email |-> "",
           passwordHash |-> <<>>, emailVerified |-> FALSE]

NoCode == [id |-> 0, userId |-> 0, contact |-> "", purpose |-> "",
           channel |-> "", codeHash |-> <<>>, attempts |-> 0,
           maxAttempts |-> 0, lastSentAt |-> 0, expiresAt |-> 0,
           consumed |-> FALSE, createdAt |-> 0]

\* action_tokens.created_at is written and never read: the model leaves it out.
NoToken == [id |-> 0, userId |-> 0, purpose |-> "", tokenHash |-> <<>>,
            expiresAt |-> 0, consumed |-> FALSE]

\* consumed_at IS NULL.  No statement reads the time stored in consumed_at,
\* only whether it is set: the rows keep that as the flag `consumed`.
IsNull(consumed) == ~consumed

NoSession == [id |-> 0, userId |-> 0, createdAt |-> 0, lastActiveAt |-> 0]
NoState == [state |-> 0, provider |-> "", expiresAt |-> 0]

Range(s) == {s[i] : i \in DOMAIN s}

----------------------------------------------------------------------------
(* users repository *)

\* FindByEmail: the row with that email, NoUser for ErrNotFound.
FindByEmail(email) ==
    IF \E i \in DOMAIN users : users[i].email = email
    THEN users[CHOOSE i \in DOMAIN users : users[i].email = email]
    ELSE NoUser

\* Create: INSERT INTO users; email is UNIQUE, a duplicate is an error.
CreateUserOk(email) == \A i \in DOMAIN users : users[i].email # email

\* Update that writes the name columns only.
UpdateUserNamesOnly(u) ==
    [i \in DOMAIN users |->
        IF users[i].id = u.id
        THEN [users[i] EXCEPT !.firstName = u.firstName, !.lastName = u.lastName]
        ELSE users[i]]

\* Update: writes every column of the row from the struct the caller holds.
UpdateUser(u) ==
    [i \in DOMAIN users |-> IF users[i].id = u.id THEN u ELSE users[i]]

\* UpdatePassword whose UPDATE leaves password_hash as it is.
UpdatePasswordLost(userId, newHash) == users

\* UpdatePassword: sets password_hash of one row.
UpdatePassword(userId, newHash) ==
    [i \in DOMAIN users |->
        IF users[i].id = userId
        THEN [users[i] EXCEPT !.passwordHash = newHash]
        ELSE users[i]]

----------------------------------------------------------------------------
(* verification_codes repository *)

ActiveRows(S) == {r \in S : IsNull(r.consumed)}

\* ORDER BY created_at DESC LIMIT 1: any row of S with the latest created_at.
Latest(S) == {r \in S : \A q \in S : q.createdAt <= r.createdAt}

\* The lookup by user without the purpose in its WHERE clause.
GetActiveVerificationCodeByUserAnyPurpose(userId, purpose, channel) ==
    Latest(ActiveRows({r \in Range(codes) :
        r.userId = userId /\ r.channel = channel}))

\* GetActiveVerificationCodeByUser: candidates of the query (empty: ErrNotFound).
GetActiveVerificationCodeByUser(userId, purpose, channel) ==
    Latest(ActiveRows({r \in Range(codes) :
        r.userId = userId /\ r.purpose = purpose /\ r.channel = channel}))

\* GetActiveVerificationCodeByContact.
GetActiveVerificationCodeByContact(contact, purpose, channel) ==
    Latest(ActiveRows({r \in Range(codes) :
        r.contact = contact /\ r.purpose = purpose /\ r.channel = channel}))

\* The partial unique indexes uidx_verification_codes_active_contact and
\* uidx_verification_codes_active_user admit the new active row vc.
UniqueActiveOk(vc) ==
    /\ \A r \in ActiveRows(Range(codes)) :
          ~(r.contact = vc.contact /\ r.purpose = vc.purpose
            /\ r.channel = vc.channel)
    /\ vc.userId # 0 =>
          \A r \in ActiveRows(Range(codes)) :
              ~(r.userId = vc.userId /\ r.purpose = vc.purpose
                /\ r.channel = vc.channel)

\* CreateVerificationCode on a table without the partial unique indexes:
\* every INSERT succeeds.
CreateVerificationCodeUnindexed(vc) == TRUE

\* CreateVerificationCode: the INSERT succeeds iff the unique indexes allow it.
CreateVerificationCodeOk(vc) == UniqueActiveOk(vc)

\* UpdateVerificationCodeForResend without SET attempts = 0.
UpdateVerificationCodeKeepingAttempts(id, newHash, newExpiresAt, lastSentAt, maxAttempts) ==
    [codes EXCEPT ![id] = [@ EXCEPT !.codeHash = newHash,
                                    !.expiresAt = newExpiresAt,
                                    !.lastSentAt = lastSentAt,
                                    !.maxAttempts = maxAttempts]]

\* UpdateVerificationCodeForResend: UPDATE ... WHERE id = $1 AND consumed_at IS NULL.
ResendMatches(id) == id \in DOMAIN codes /\ IsNull(codes[id].consumed)
UpdateVerificationCodeForResend(id, newHash, newExpiresAt, lastSentAt, maxAttempts) ==
    [codes EXCEPT ![id] = [@ EXCEPT !.codeHash = newHash,
                                    !.expiresAt = newExpiresAt,
                                    !.lastSentAt = lastSentAt,
                                    !.attempts = 0,
                                    !.maxAttempts = maxAttempts]]

\* IncrementVerificationAttempt: UPDATE ... SET attempts = attempts + 1
\* WHERE id = $1 AND consumed_at IS NULL RETURNING attempts, max_attempts.
IncrementMatches(id) == id \in DOMAIN codes /\ IsNull(codes[id].consumed)
\* The increment that also moves the expiry of the row.
IncrementVerificationAttemptExtending(id) ==
    [codes EXCEPT ![id] = [@ EXCEPT !.attempts = @ + 1, !.expiresAt = @ + 1]]

\* SET attempts = attempts + 1
IncrementVerificationAttempt(id) ==
    [codes EXCEPT ![id] = [@ EXCEPT !.attempts = @ + 1]]

\* ConsumeVerificationCode whose UPDATE leaves consumed_at as it is.
ConsumeVerificationCodeLost(id) == codes

\* ConsumeVerificationCode: UPDATE ... SET consumed_at = now
\* WHERE id = $1 AND consumed_at IS NULL.
ConsumeMatches(id) == id \in DOMAIN codes /\ IsNull(codes[id].consumed)
ConsumeVerificationCode(id) ==
    [codes EXCEPT ![id] = [@ EXCEPT !.consumed = TRUE]]

----------------------------------------------------------------------------
(* action_tokens repository *)

\* The lookup without `consumed_at IS NULL`.
FindActionTokenByHashConsumedToo(tokenHash, purpose) ==
    {t \in tokens : t.tokenHash = tokenHash /\ t.purpose = purpose}

\* FindActionTokenByHash: WHERE token_hash = $1 AND purpose = $2 AND consumed_at IS NULL.
FindActionTokenByHash(tokenHash, purpose) ==
    {t \in tokens : t.tokenHash = tokenHash /\ t.purpose = purpose
                    /\ IsNull(t.consumed)}

\* CreateActionToken: token_hash is UNIQUE.
CreateActionTokenOk(t) == \A q \in tokens : q.tokenHash # t.tokenHash

\* ConsumeActionToken whose UPDATE leaves consumed_at as it is.
ConsumeActionTokenLost(id) == tokens

\* ConsumeActionToken: UPDATE ... WHERE id = $1 AND consumed_at IS NULL.
ConsumeActionToken(id) ==
    {IF t.id = id /\ IsNull(t.consumed)
     THEN [t EXCEPT !.consumed = TRUE] ELSE t : t \in tokens}

\* DeleteUserActionTokensByPurpose: DELETE ... WHERE user_id = $1 AND purpose = $2.
DeleteUserActionTokensByPurpose(userId, purpose) ==
    {t \in tokens : ~(t.userId = userId /\ t.purpose = purpose)}

----------------------------------------------------------------------------
(* Tasks *)

NoTables == [users |-> <<>>, codes |-> <<>>, tokens |-> {}, sessions |-> {},
             outbox |-> 0]

\* The tables at this instant.
Tables == [users |-> users, codes |-> codes, tokens |-> tokens,
           sessions |-> sessions, outbox |-> outbox]

\* The local variables of a request handler.
IdleLoc == [op |-> "", email |-> "", code |-> "", firstName |-> "",
            lastName |-> "", password |-> "", token |-> 0, provider |-> "",
            state |-> 0, sid |-> 0, user |-> NoUser, vc |-> NoCode,
            at |-> NoToken, t |-> 0, newCode |-> "", res |-> "", out |-> 0,
            \* observations kept for the properties
            corErr |-> "", lost |-> NoCode, writeErr |-> FALSE, rows0 |-> 0, won |-> FALSE, replay |-> FALSE, retry |-> FALSE,
            nthAll |-> 0, nthLive |-> 0, pw0 |-> <<>>,
            \* session and oauth calls
            sess |-> NoSession, st |-> NoState, userId |-> 0, lastOk0 |-> 0,
            \* the tables as the call found them
            before |-> NoTables]

Busy(p) == pc[p] \notin {"idle", "done"}

\* Calls in flight that may still insert a verification_codes row.
CodeWriters == {q \in AllProcs : Busy(q) /\ loc[q].op \in {"Register", "Resend", "Initiate"}}
\* Calls in flight that may still insert an action_tokens row.
TokenWriters == {q \in AllProcs : Busy(q) /\ loc[q].op = "VerifyReset"}

\* Verify calls in flight, each of which may still count one attempt.
Verifiers == {q \in AllProcs : Busy(q) /\ loc[q].op \in {"Confirm", "VerifyReset"}}
\* The attempts counter has no upper limit in the code; the model stops
\* taking verify calls once a row has counted more than MaxAttempts.
AttemptsRoom ==
    \A i \in DOMAIN codes :
        /\ codes[i].attempts + Cardinality(Verifiers) <= MaxAttempts
        /\ hist.wrongAll[i] + Cardinality(Verifiers) <= MaxAttempts

CodeRoom ==
    /\ Len(codes) + Cardinality(CodeWriters) < MaxCodeRows
    /\ outbox < MaxOutbox
\* A call of a sequential task for a key that has an active row refreshes
\* the row or is refused; it inserts nothing and is taken even when the table
\* is full.
IssueRoom(p, email, purpose) ==
    \/ CodeRoom
    \/ /\ p \in AcctProcs
       /\ outbox < MaxOutbox
       /\ GetActiveVerificationCodeByContact(email, purpose, ChannelEmail) # {}
TokenRoom == nextToken + Cardinality(TokenWriters) < MaxTokenRows

Start(p, l, label) ==
    /\ pc[p] = "idle"
    /\ p \in ConcProcs => calls < MaxCallsConc
    /\ calls' = IF p \in ConcProcs THEN calls + 1 ELSE calls
    /\ pc' = [pc EXCEPT ![p] = label]
    /\ loc' = [loc EXCEPT ![p] = IF p \in AcctProcs
                                  THEN [l EXCEPT !.before = Tables] ELSE l]

\* The handler returns `res` to its caller.
Return(p, l, res) ==
    /\ pc' = [pc EXCEPT ![p] = "done"]
    /\ loc' = [loc EXCEPT ![p] = [l EXCEPT !.res = res]]

Goto(p, l, label) ==
    /\ pc' = [pc EXCEPT ![p] = label]
    /\ loc' = [loc EXCEPT ![p] = l]

\* The caller has taken the result; the task is free for the next request.
Finish(p) ==
    /\ pc[p] = "done"
    /\ pc' = [pc EXCEPT ![p] = "idle"]
    /\ loc' = [loc EXCEPT ![p] = IdleLoc]
    /\ UNCHANGED <<now, dbVerif, dbSess, dbOAuth, outbox, hist, calls>>

Tick(max) ==
    /\ now < max
    /\ now' = now + 1
    /\ UNCHANGED <<dbVerif, dbSess, dbOAuth, outbox, pc, loc, hist, calls>>

\* A notification goroutine whose failed send takes the code back.
DeliverRevokesCode ==
    /\ outbox > 0
    /\ outbox' = outbox - 1
    /\ codes' = [i \in DOMAIN codes |-> [codes[i] EXCEPT !.consumed = TRUE]]
    /\ UNCHANGED <<now, users, tokens, nextToken, dbSess, dbOAuth, pc, loc, hist, calls>>

\* A notification goroutine (go func() { notification.SendTemplate(...) })
\* ends, delivered or not: a failure is only logged, here and in the
\* goroutine that service.Send starts per channel.
Deliver ==
    /\ outbox > 0
    /\ outbox' = outbox - 1
    /\ UNCHANGED <<now, dbVerif, dbSess, dbOAuth, pc, loc, hist, calls>>

----------------------------------------------------------------------------
(* The checks of a verify call *)

\* time.Now().After(vc.ExpiresAt)
Expired(t, expiresAt) == t > expiresAt

\* subtle.ConstantTimeCompare(hashToken(code), vc.CodeHash) == 1
CodeMatches(code, vc) == hashToken(code) = vc.codeHash

----------------------------------------------------------------------------
(* History: which secrets have been accepted, per row *)

\* A verify call has returned success after matching code row id.
NoteVerified(id) ==
    [hist EXCEPT !.okTwice = IF id \in hist.okOnce THEN @ \cup {id} ELSE @,
                 !.okOnce = @ \cup {id}]

\* FinalizePasswordReset has returned success for action token id.
NoteRedeemed(id) ==
    [hist EXCEPT !.finTwice = IF id \in hist.finOnce THEN @ \cup {id} ELSE @,
                 !.finOnce = @ \cup {id}]

\* A verify call has compared a wrong code with row id; `live` tells whether
\* the row was unexpired at that call.
NoteWrong(id, live) ==
    [hist EXCEPT !.wrongAll[id] = @ + 1,
                 !.wrongLive[id] = IF live THEN @ + 1 ELSE @]

\* Row id has been refreshed: the count of wrong codes starts again.
NoteRefreshed(id) ==
    [hist EXCEPT !.wrongAll[id] = 0, !.wrongLive[id] = 0]

\* The check of a verify call, as the history sees it.
NoteChecked(l) ==
    IF CodeMatches(l.code, l.vc) THEN hist
    ELSE NoteWrong(l.vc.id, ~Expired(l.t, l.vc.expiresAt))

\* The locals of a verify call after its check, with its rank among the
\* wrong-code calls on the row.
Ranked(l) ==
    IF CodeMatches(l.code, l.vc) THEN l
    ELSE [l EXCEPT !.nthAll = NoteChecked(l).wrongAll[l.vc.id],
                   !.nthLive = NoteChecked(l).wrongLive[l.vc.id]]

\* An earlier call has succeeded with this code on a row of this key, that
\* row is consumed and the key has no active row.
IsReplay(email, purpose, code) ==
    /\ \E i \in DOMAIN codes :
          /\ i \in hist.okOnce /\ codes[i].consumed
          /\ codes[i].contact = email /\ codes[i].purpose = purpose
          /\ codes[i].codeHash = hashToken(code)
    /\ GetActiveVerificationCodeByContact(email, purpose, ChannelEmail) = {}

----------------------------------------------------------------------------
(* createOrRefreshVerificationCode, called by Register,                     *)
(* ResendEmailVerification and InitiatePasswordReset                        *)

PurposeOf(op) == IF op = "Initiate" THEN PasswordReset ELSE EmailVerify

\* Every caller, Register included, returns createOrRefresh's error.
CorReturnPropagated(p, l, err) ==
    /\ Return(p, [l EXCEPT !.corErr = err], err)
    /\ outbox' = IF err = "OK" THEN outbox + 1 ELSE outbox

\* What the caller does with createOrRefresh's result (code, err):
\* Register logs an error and returns the user; the two others return the
\* error; all three spawn the notification goroutine when a code came back.
CorReturn(p, l, err) ==
    /\ Return(p, [l EXCEPT !.corErr = err], IF l.op = "Register" THEN "OK" ELSE err)
    /\ outbox' = IF err = "OK" THEN outbox + 1 ELSE outbox

\* active, err = s.repo.GetActiveVerificationCodeByUser(...)
CorGetByUser(p) ==
    /\ pc[p] = "cor_getUser"
    /\ LET l == loc[p]
           found == GetActiveVerificationCodeByUser(l.user.id, PurposeOf(l.op), ChannelEmail)
       IN IF found = {}
          THEN Goto(p, l, "cor_getContact")
          ELSE \E r \in found : Goto(p, [l EXCEPT !.vc = r], "cor_now")
    /\ UNCHANGED <<now, dbVerif, dbSess, dbOAuth, outbox, hist, calls>>

\* if active == nil { active, err = s.repo.GetActiveVerificationCodeByContact(...) }
CorGetByContact(p) ==
    /\ pc[p] = "cor_getContact"
    /\ LET l == loc[p]
           found == GetActiveVerificationCodeByContact(l.user.email, PurposeOf(l.op), ChannelEmail)
       IN IF found = {}
          THEN Goto(p, [l EXCEPT !.vc = NoCode], "cor_now")
          ELSE \E r \in found : Goto(p, [l EXCEPT !.vc = r], "cor_now")
    /\ UNCHANGED <<now, dbVerif, dbSess, dbOAuth, outbox, hist, calls>>

\* The cooldown measured from created_at in place of last_sent_at.
ResendTooSoonSinceCreation(active, t) ==
    active.id # 0 /\ t - active.createdAt < ResendCooldownSeconds

\* active != nil && now.Sub(active.LastSentAt) < cooldown
ResendTooSoon(active, t) ==
    active.id # 0 /\ t - active.lastSentAt < ResendCooldownSeconds

\* now := time.Now(); the cooldown check; generateNumericCode(6)
CorNow(p, generated) ==
    /\ pc[p] = "cor_now"
    /\ LET l == [loc[p] EXCEPT !.t = now]
       IN IF ResendTooSoon(l.vc, l.t)
          THEN CorReturn(p, l, "ErrResendTooSoon")
          ELSE /\ \E c \in generated :
                    Goto(p, [l EXCEPT !.newCode = c],
                         IF l.vc.id # 0 THEN "cor_update" ELSE "cor_insert")
               /\ outbox' = outbox
    /\ UNCHANGED <<now, dbVerif, dbSess, dbOAuth, hist, calls>>

\* The refresh without the fall-through: zero rows affected is an error.
CorUpdateOrFail(p) ==
    /\ pc[p] = "cor_update"
    /\ LET l == loc[p]
       IN IF ResendMatches(l.vc.id)
          THEN /\ codes' = UpdateVerificationCodeForResend(l.vc.id,
                              hashToken(l.newCode), l.t + TTLMinutes, l.t, MaxAttempts)
               /\ CorReturn(p, l, "OK")
               /\ hist' = NoteRefreshed(l.vc.id)
          ELSE /\ codes' = codes
               /\ CorReturn(p, [l EXCEPT !.lost = codes[l.vc.id]], "ErrInternal")
               /\ hist' = hist
    /\ UNCHANGED <<now, users, tokens, nextToken, dbSess, dbOAuth, calls>>

\* s.repo.UpdateVerificationCodeForResend(ctx, active.ID, hash, expiresAt, now, maxAttempts)
CorUpdate(p) ==
    /\ pc[p] = "cor_update"
    /\ LET l == loc[p]
       IN IF ResendMatches(l.vc.id)
          THEN /\ codes' = UpdateVerificationCodeForResend(l.vc.id,
                              hashToken(l.newCode), l.t + TTLMinutes, l.t, MaxAttempts)
               /\ CorReturn(p, l, "OK")
               /\ hist' = NoteRefreshed(l.vc.id)
          ELSE \* ErrNotFound: fall through to create new
               /\ codes' = codes
               /\ Goto(p, [l EXCEPT !.lost = codes[l.vc.id]], "cor_insert")
               /\ outbox' = outbox
               /\ hist' = hist
    /\ UNCHANGED <<now, users, tokens, nextToken, dbSess, dbOAuth, calls>>

\* The inserted row with the insert counted as an attempt.
NewCodeRowCounted(l) ==
    [id |-> Len(codes) + 1, userId |-> l.user.id, contact |-> l.user.email,
     purpose |-> PurposeOf(l.op), channel |-> ChannelEmail,
     codeHash |-> hashToken(l.newCode), attempts |-> 1,
     maxAttempts |-> MaxAttempts, lastSentAt |-> l.t,
     expiresAt |-> l.t + TTLMinutes, consumed |-> FALSE, createdAt |-> l.t]

\* The row createOrRefresh inserts.
NewCodeRow(l) ==
    [id |-> Len(codes) + 1, userId |-> l.user.id, contact |-> l.user.email,
     purpose |-> PurposeOf(l.op), channel |-> ChannelEmail,
     codeHash |-> hashToken(l.newCode), attempts |-> 0,
     maxAttempts |-> MaxAttempts, lastSentAt |-> l.t,
     expiresAt |-> l.t + TTLMinutes, consumed |-> FALSE, createdAt |-> l.t]

\* s.repo.CreateVerificationCode(ctx, vc)
CorInsert(p) ==
    /\ pc[p] = "cor_insert"
    /\ LET l == loc[p]
           vc == NewCodeRow(l)
       IN IF CreateVerificationCodeOk(vc)
          THEN /\ codes' = Append(codes, vc)
               /\ CorReturn(p, l, "OK")
          ELSE /\ codes' = codes
               /\ CorReturn(p, l, "ErrInternal")
    /\ UNCHANGED <<now, users, tokens, nextToken, dbSess, dbOAuth, hist, calls>>

----------------------------------------------------------------------------
(* Register *)

StartRegister(p, firstName, lastName, email, password) ==
    /\ IssueRoom(p, email, EmailVerify)
    /\ Start(p, [IdleLoc EXCEPT !.op = "Register", !.rows0 = Len(codes), !.firstName = firstName,
                 !.lastName = lastName, !.email = email,
                 !.password = password], "reg_find")
    /\ UNCHANGED <<now, dbVerif, dbSess, dbOAuth, outbox, hist>>

\* Register without the conflict for a verified user.
RegFindNoConflict(p) ==
    /\ pc[p] = "reg_find"
    /\ LET l == loc[p]
           existing == FindByEmail(l.email)
           renamed == [existing EXCEPT !.firstName = l.firstName,
                                       !.lastName = l.lastName]
       IN IF existing.id # 0
          THEN Goto(p, [l EXCEPT !.user = renamed],
                    IF renamed # existing THEN "reg_update" ELSE "cor_getUser")
          ELSE Goto(p, l, "reg_create")
    /\ UNCHANGED <<now, dbVerif, dbSess, dbOAuth, outbox, hist, calls>>

\* existing, err := s.repo.FindByEmail(ctx, email) and the branches on it
RegFind(p) ==
    /\ pc[p] = "reg_find"
    /\ LET l == loc[p]
           existing == FindByEmail(l.email)
           renamed == [existing EXCEPT !.firstName = l.firstName,
                                       !.lastName = l.lastName]
       IN IF existing.id # 0
          THEN IF existing.emailVerified
               THEN Return(p, l, "ErrEmailExists")
               ELSE Goto(p, [l EXCEPT !.user = renamed],
                         IF renamed # existing THEN "reg_update" ELSE "cor_getUser")
          ELSE Goto(p, l, "reg_create")
    /\ UNCHANGED <<now, dbVerif, dbSess, dbOAuth, outbox, hist, calls>>

\* s.repo.Update(ctx, existing)
RegUpdate(p) ==
    /\ pc[p] = "reg_update"
    /\ users' = UpdateUser(loc[p].user)
    /\ Goto(p, loc[p], "cor_getUser")
    /\ UNCHANGED <<now, codes, tokens, nextToken, dbSess, dbOAuth, outbox, hist, calls>>

\* s.repo.Create(ctx, newUser)
RegCreate(p) ==
    /\ pc[p] = "reg_create"
    /\ LET l == loc[p]
           newUser == [id |-> Len(users) + 1, firstName |-> l.firstName,
                       lastName |-> l.lastName, email |-> l.email,
                       passwordHash |-> hashPassword(l.password),
                       emailVerified |-> FALSE]
       IN IF CreateUserOk(l.email)
          THEN /\ users' = Append(users, newUser)
               /\ Goto(p, [l EXCEPT !.user = newUser], "cor_getUser")
          ELSE /\ users' = users
               /\ Return(p, l, "ErrInternal")
    /\ UNCHANGED <<now, codes, tokens, nextToken, dbSess, dbOAuth, outbox, hist, calls>>

----------------------------------------------------------------------------
(* ResendEmailVerification *)

StartResend(p, email) ==
    /\ IssueRoom(p, email, EmailVerify)
    /\ Start(p, [IdleLoc EXCEPT !.op = "Resend", !.rows0 = Len(codes), !.email = email], "rsd_find")
    /\ UNCHANGED <<now, dbVerif, dbSess, dbOAuth, outbox, hist>>

RsdFind(p) ==
    /\ pc[p] = "rsd_find"
    /\ LET l == loc[p]
           user == FindByEmail(l.email)
       IN IF user.id = 0 \/ user.emailVerified
          THEN Return(p, l, "OK")
          ELSE Goto(p, [l EXCEPT !.user = user], "cor_getUser")
    /\ UNCHANGED <<now, dbVerif, dbSess, dbOAuth, outbox, hist, calls>>

----------------------------------------------------------------------------
(* InitiatePasswordReset *)

StartInitiate(p, email) ==
    /\ IssueRoom(p, email, PasswordReset)
    /\ Start(p, [IdleLoc EXCEPT !.op = "Initiate", !.rows0 = Len(codes), !.email = email], "ipr_find")
    /\ UNCHANGED <<now, dbVerif, dbSess, dbOAuth, outbox, hist>>

\* InitiatePasswordReset that goes on to issue a code when no user has
\* the email.
IprFindUnknownIssues(p) ==
    /\ pc[p] = "ipr_find"
    /\ Goto(p, [loc[p] EXCEPT !.user = FindByEmail(loc[p].email)], "cor_getUser")
    /\ UNCHANGED <<now, dbVerif, dbSess, dbOAuth, outbox, hist, calls>>

\* user, err := s.repo.FindByEmail(ctx, email); ErrNotFound -> return nil
IprFind(p) ==
    /\ pc[p] = "ipr_find"
    /\ LET l == loc[p]
           user == FindByEmail(l.email)
       IN IF user.id = 0
          THEN Return(p, l, "OK")
          ELSE Goto(p, [l EXCEPT !.user = user], "cor_getUser")
    /\ UNCHANGED <<now, dbVerif, dbSess, dbOAuth, outbox, hist, calls>>

----------------------------------------------------------------------------
(* ConfirmEmailVerification *)

StartConfirm(p, email, code) ==
    /\ AttemptsRoom
    /\ Start(p, [IdleLoc EXCEPT !.op = "Confirm", !.email = email,
                 !.code = code,
                 !.replay = IsReplay(email, EmailVerify, code)], "cev_find")
    /\ UNCHANGED <<now, dbVerif, dbSess, dbOAuth, outbox, hist>>

\* strings.TrimSpace(code) == ""; s.repo.FindByEmail; user.EmailVerified
CevFind(p) ==
    /\ pc[p] = "cev_find"
    /\ LET l == loc[p]
           user == FindByEmail(l.email)
       IN IF l.code = "" \/ user.id = 0
          THEN Return(p, l, "ErrInvalidOTP")
          ELSE IF user.emailVerified
               THEN Return(p, [l EXCEPT !.user = user], "OK")
               ELSE Goto(p, [l EXCEPT !.user = user], "cev_get")
    /\ UNCHANGED <<now, dbVerif, dbSess, dbOAuth, outbox, hist, calls>>

\* vc, err := s.repo.GetActiveVerificationCodeByUser(ctx, user.ID, email_verify, email)
CevGet(p) ==
    /\ pc[p] = "cev_get"
    /\ LET l == loc[p]
           found == GetActiveVerificationCodeByUser(l.user.id, EmailVerify, ChannelEmail)
       IN IF found = {}
          THEN Return(p, l, "ErrInvalidOTP")
          ELSE \E r \in found : Goto(p, [l EXCEPT !.vc = r], "cev_check")
    /\ UNCHANGED <<now, dbVerif, dbSess, dbOAuth, outbox, hist, calls>>

\* the TTL check and the constant-time compare
CevCheck(p) ==
    /\ pc[p] = "cev_check"
    /\ LET l == [loc[p] EXCEPT !.t = now]
       IN /\ IF Expired(l.t, l.vc.expiresAt)
             THEN Return(p, Ranked(l), "ErrInvalidOTP")
             ELSE Goto(p, Ranked(l),
                       IF CodeMatches(l.code, l.vc) THEN "cev_consume" ELSE "cev_inc")
          /\ hist' = NoteChecked(l)
    /\ UNCHANGED <<now, dbVerif, dbSess, dbOAuth, outbox, calls>>

\* The attempts check with > in place of >=.
AttemptResultOffByOne(attempts, max) ==
    IF attempts > max THEN "ErrTooManyAttempts" ELSE "ErrInvalidOTP"

\* if attempts >= max { return ErrTooManyAttempts }; return ErrInvalidOTP
AttemptResult(attempts, max) ==
    IF attempts >= max THEN "ErrTooManyAttempts" ELSE "ErrInvalidOTP"

\* attempts, max, incErr := s.repo.IncrementVerificationAttempt(ctx, vc.ID);
\* ErrNotFound is let through with attempts = max = 0
CevInc(p) ==
    /\ pc[p] = "cev_inc"
    /\ LET l == loc[p]
       IN IF IncrementMatches(l.vc.id)
          THEN /\ codes' = IncrementVerificationAttempt(l.vc.id)
               /\ Return(p, l, AttemptResult(codes'[l.vc.id].attempts,
                                             codes'[l.vc.id].maxAttempts))
          ELSE /\ codes' = codes
               /\ Return(p, l, AttemptResult(0, 0))
    /\ UNCHANGED <<now, users, tokens, nextToken, dbSess, dbOAuth, outbox, hist, calls>>

\* s.repo.ConsumeVerificationCode(ctx, vc.ID)
CevConsume(p) ==
    /\ pc[p] = "cev_consume"
    /\ LET l == loc[p]
           matched == ConsumeMatches(l.vc.id)
       IN /\ codes' = IF matched THEN ConsumeVerificationCode(l.vc.id) ELSE codes
          \* err != nil && !errors.Is(err, ErrNotFound): ErrNotFound is let through
          /\ Goto(p, [l EXCEPT !.won = matched], "cev_update")
    /\ UNCHANGED <<now, users, tokens, nextToken, dbSess, dbOAuth, outbox, hist, calls>>

\* user.EmailVerified = true; s.repo.Update(ctx, user)
CevUpdate(p) ==
    /\ pc[p] = "cev_update"
    /\ LET l == [loc[p] EXCEPT !.user.emailVerified = TRUE]
       IN /\ users' = UpdateUser(l.user)
          /\ Return(p, l, "OK")
          /\ hist' = NoteVerified(l.vc.id)
    /\ UNCHANGED <<now, codes, tokens, nextToken, dbSess, dbOAuth, outbox, calls>>

\* s.repo.Update(ctx, user) returns an error: it is logged and the call
\* returns ErrInternal; the code row stays as CevConsume left it.
CevUpdateFails(p) ==
    /\ pc[p] = "cev_update"
    /\ users' = users
    /\ Return(p, [loc[p] EXCEPT !.writeErr = TRUE], "ErrInternal")
    /\ UNCHANGED <<now, codes, tokens, nextToken, dbSess, dbOAuth, outbox, hist, calls>>

----------------------------------------------------------------------------
(* VerifyPasswordResetCode *)

StartVerifyReset(p, email, code) ==
    /\ TokenRoom
    /\ AttemptsRoom
    /\ Start(p, [IdleLoc EXCEPT !.op = "VerifyReset", !.email = email,
                 !.code = code,
                 !.replay = IsReplay(email, PasswordReset, code)], "vpr_find")
    /\ UNCHANGED <<now, dbVerif, dbSess, dbOAuth, outbox, hist>>

\* code == ""; s.repo.FindByEmail
VprFind(p) ==
    /\ pc[p] = "vpr_find"
    /\ LET l == loc[p]
           user == FindByEmail(l.email)
       IN IF l.code = "" \/ user.id = 0
          THEN Return(p, l, "ErrInvalidOTP")
          ELSE Goto(p, [l EXCEPT !.user = user], "vpr_get")
    /\ UNCHANGED <<now, dbVerif, dbSess, dbOAuth, outbox, hist, calls>>

\* vc, err := s.repo.GetActiveVerificationCodeByUser(ctx, user.ID, password_reset, email)
VprGet(p) ==
    /\ pc[p] = "vpr_get"
    /\ LET l == loc[p]
           found == GetActiveVerificationCodeByUser(l.user.id, PasswordReset, ChannelEmail)
       IN IF found = {}
          THEN Return(p, l, "ErrInvalidOTP")
          ELSE \E r \in found : Goto(p, [l EXCEPT !.vc = r], "vpr_check")
    /\ UNCHANGED <<now, dbVerif, dbSess, dbOAuth, outbox, hist, calls>>

VprCheck(p) ==
    /\ pc[p] = "vpr_check"
    /\ LET l == [loc[p] EXCEPT !.t = now]
       IN /\ IF Expired(l.t, l.vc.expiresAt)
             THEN Return(p, Ranked(l), "ErrInvalidOTP")
             ELSE Goto(p, Ranked(l),
                       IF CodeMatches(l.code, l.vc) THEN "vpr_consume" ELSE "vpr_inc")
          /\ hist' = NoteChecked(l)
    /\ UNCHANGED <<now, dbVerif, dbSess, dbOAuth, outbox, calls>>

VprInc(p) ==
    /\ pc[p] = "vpr_inc"
    /\ LET l == loc[p]
       IN IF IncrementMatches(l.vc.id)
          THEN /\ codes' = IncrementVerificationAttempt(l.vc.id)
               /\ Return(p, l, AttemptResult(codes'[l.vc.id].attempts,
                                             codes'[l.vc.id].maxAttempts))
          ELSE /\ codes' = codes
               /\ Return(p, l, AttemptResult(0, 0))
    /\ UNCHANGED <<now, users, tokens, nextToken, dbSess, dbOAuth, outbox, hist, calls>>

VprConsume(p) ==
    /\ pc[p] = "vpr_consume"
    /\ LET l == loc[p]
           matched == ConsumeMatches(l.vc.id)
       IN /\ codes' = IF matched THEN ConsumeVerificationCode(l.vc.id) ELSE codes
          \* err != nil && !errors.Is(err, ErrNotFound): ErrNotFound is let through
          /\ Goto(p, [l EXCEPT !.won = matched], "vpr_delete")
    /\ UNCHANGED <<now, users, tokens, nextToken, dbSess, dbOAuth, outbox, hist, calls>>

\* What VerifyPasswordResetCode removes before it inserts the new token.
InvalidateOldTokens(userId) == DeleteUserActionTokensByPurpose(userId, PasswordReset)

\* rawToken := generateSecureToken(32); expiresAt := time.Now().Add(ttl);
\* s.repo.DeleteUserActionTokensByPurpose(ctx, user.ID, "password_reset")
VprDelete(p) ==
    /\ pc[p] = "vpr_delete"
    /\ LET l == loc[p]
           raw == nextToken + 1
           at == [id |-> raw, userId |-> l.user.id, purpose |-> PasswordReset,
                  tokenHash |-> hashToken(raw), expiresAt |-> now + ResetTokenTTL,
                  consumed |-> FALSE]
       IN /\ nextToken' = raw
          /\ tokens' = InvalidateOldTokens(l.user.id)
          /\ Goto(p, [l EXCEPT !.token = raw, !.at = at], "vpr_create")
    /\ UNCHANGED <<now, users, codes, dbSess, dbOAuth, outbox, hist, calls>>

\* The plaintext token returned without its row being stored.
VprCreateNotStored(p) ==
    /\ pc[p] = "vpr_create"
    /\ tokens' = tokens
    /\ Return(p, [loc[p] EXCEPT !.out = loc[p].token], "OK")
    /\ hist' = NoteVerified(loc[p].vc.id)
    /\ UNCHANGED <<now, users, codes, nextToken, dbSess, dbOAuth, outbox, calls>>

\* s.repo.CreateActionToken(ctx, at); return rawToken
VprCreate(p) ==
    /\ pc[p] = "vpr_create"
    /\ LET l == loc[p]
       IN IF CreateActionTokenOk(l.at)
          THEN /\ tokens' = tokens \cup {l.at}
               /\ Return(p, [l EXCEPT !.out = l.token], "OK")
               /\ hist' = NoteVerified(l.vc.id)
          ELSE /\ tokens' = tokens
               /\ Return(p, l, "ErrInternal")
               /\ hist' = hist
    /\ UNCHANGED <<now, users, codes, nextToken, dbSess, dbOAuth, outbox, calls>>

----------------------------------------------------------------------------
(* FinalizePasswordReset *)

StartFinalize(p, resetToken, newPassword) ==
    /\ Start(p, [IdleLoc EXCEPT !.op = "Finalize", !.token = resetToken,
                 !.password = newPassword,
                 !.replay = resetToken \in hist.finOnce,
                 !.pw0 = [i \in DOMAIN users |-> users[i].passwordHash]],
             "fpr_find")
    /\ UNCHANGED <<now, dbVerif, dbSess, dbOAuth, outbox, hist>>

\* resetToken == ""; at, err := s.repo.FindActionTokenByHash(ctx, tokenHash, "password_reset")
FprFind(p) ==
    /\ pc[p] = "fpr_find"
    /\ LET l == loc[p]
           found == FindActionTokenByHash(hashToken(l.token), PasswordReset)
       IN IF l.token = 0 \/ found = {}
          THEN Return(p, l, "ErrInvalidResetToken")
          ELSE \E at \in found : Goto(p, [l EXCEPT !.at = at], "fpr_check")
    /\ UNCHANGED <<now, dbVerif, dbSess, dbOAuth, outbox, hist, calls>>

\* time.Now().After(at.ExpiresAt); hashPassword(newPassword)
FprCheck(p) ==
    /\ pc[p] = "fpr_check"
    /\ LET l == [loc[p] EXCEPT !.t = now]
       IN IF Expired(l.t, l.at.expiresAt)
          THEN Return(p, l, "ErrInvalidResetToken")
          ELSE Goto(p, l, "fpr_updpw")
    /\ UNCHANGED <<now, dbVerif, dbSess, dbOAuth, outbox, hist, calls>>

\* s.repo.UpdatePassword(ctx, at.UserID, newPasswordHash)
FprUpdatePassword(p) ==
    /\ pc[p] = "fpr_updpw"
    /\ LET l == loc[p]
       IN IF \E i \in DOMAIN users : users[i].id = l.at.userId
          THEN /\ users' = UpdatePassword(l.at.userId, hashPassword(l.password))
               /\ Goto(p, l, "fpr_consume")
          ELSE /\ users' = users
               /\ Return(p, l, "ErrInternal")
    /\ UNCHANGED <<now, codes, tokens, nextToken, dbSess, dbOAuth, outbox, hist, calls>>

\* s.repo.ConsumeActionToken(ctx, at.ID); return nil
FprConsume(p) ==
    /\ pc[p] = "fpr_consume"
    /\ tokens' = ConsumeActionToken(loc[p].at.id)
    /\ Return(p, loc[p], "OK")
    /\ hist' = NoteRedeemed(loc[p].at.id)
    /\ UNCHANGED <<now, users, codes, nextToken, dbSess, dbOAuth, outbox, calls>>

----------------------------------------------------------------------------
(* session.postgresProvider *)

\* SELECT ... FROM user_active_sessions WHERE session_token = $1 LIMIT 1
SessionRows(sid) == {r \in sessions : r.id = sid}

\* Calls in flight that may still insert a session row.
SessionWriters ==
    {q \in AllProcs : Busy(q)
                       /\ loc[q].op \in {"CreateAuthSession", "OAuthCallback", "Login"}}
SessionRoom == nextSession + Cardinality(SessionWriters) < MaxSessionRows

\* The session was created, or validated with success, at time t.
NoteValidated(sid, t) ==
    [hist EXCEPT !.lastOk[sid] = IF t > @ THEN t ELSE @]

StartCreateAuthSession(p, userId) ==
    /\ SessionRoom
    /\ Start(p, [IdleLoc EXCEPT !.op = "CreateAuthSession", !.userId = userId],
             "cas_now")
    /\ UNCHANGED <<now, dbVerif, dbSess, dbOAuth, outbox, hist>>

\* randomOpaque(32), uuid.NewV7(), now := time.Now()
CasNow(p) ==
    /\ pc[p] = "cas_now"
    /\ nextSession' = nextSession + 1
    /\ Goto(p, [loc[p] EXCEPT !.sid = nextSession + 1, !.t = now], "cas_insert")
    /\ UNCHANGED <<now, dbVerif, sessions, dbOAuth, outbox, hist, calls>>

\* The row CreateAuthSession inserts.
NewSession(l) ==
    [id |-> l.sid, userId |-> l.userId, createdAt |-> l.t, lastActiveAt |-> l.t]

\* CreateAuthSession returns the session id to its caller: to the client, or
\* to HandleOAuthCallback, which then runs its deferred DeleteOAuthState.
CasReturn(p, l) ==
    IF l.op = "OAuthCallback"
    THEN Goto(p, [l EXCEPT !.res = "OK", !.out = l.sid], "hoc_defer")
    ELSE Return(p, [l EXCEPT !.out = l.sid], "OK")

\* INSERT INTO user_active_sessions (..., last_active_at, created_at)
CasInsert(p) ==
    /\ pc[p] = "cas_insert"
    /\ LET l == loc[p]
       IN /\ sessions' = sessions \cup {NewSession(l)}
          /\ hist' = NoteValidated(l.sid, l.t)
          /\ CasReturn(p, l)
    /\ UNCHANGED <<now, dbVerif, nextSession, dbOAuth, outbox, calls>>

\* sid <= 0 stands for "" and for an id without ':'
StartGetAndExtend(p, sid) ==
    /\ Start(p, [IdleLoc EXCEPT !.op = "GetAndExtend", !.sid = sid,
                 !.replay = sid \in hist.deleted,
                 !.retry = sid \in hist.expired], "gae_select")
    /\ UNCHANGED <<now, dbVerif, dbSess, dbOAuth, outbox, hist>>

GaeSelect(p) ==
    /\ pc[p] = "gae_select"
    /\ LET l == loc[p]
       IN IF l.sid <= 0 \/ SessionRows(l.sid) = {}
          THEN Return(p, l, "ErrNotFound")
          ELSE \E r \in SessionRows(l.sid) :
                  Goto(p, [l EXCEPT !.sess = r, !.userId = r.userId], "gae_check")
    /\ UNCHANGED <<now, dbVerif, dbSess, dbOAuth, outbox, hist, calls>>

\* GetAndExtend without the absolute TTL check.
AbsoluteNeverExpired(t, createdAt) == FALSE

\* now.Sub(createdAt) > p.cfg.AbsoluteTTL
AbsoluteExpired(t, createdAt) == t - createdAt > AbsoluteTTL
\* now.Sub(lastActiveAt) > p.cfg.SlidingTTL
SlidingExpired(t, lastActiveAt) == t - lastActiveAt > SlidingTTL

\* now := time.Now() and the two TTL checks
GaeCheck(p) ==
    /\ pc[p] = "gae_check"
    /\ LET l == [loc[p] EXCEPT !.t = now, !.lastOk0 = hist.lastOk[loc[p].sid]]
       IN Goto(p, l, IF \/ AbsoluteExpired(l.t, l.sess.createdAt)
                        \/ SlidingExpired(l.t, l.sess.lastActiveAt)
                     THEN "gae_delete" ELSE "gae_extend")
    /\ UNCHANGED <<now, dbVerif, dbSess, dbOAuth, outbox, hist, calls>>

\* The DELETE that removes nothing.
DeleteSessionLost(sid) == sessions

\* DELETE FROM user_active_sessions WHERE session_token = $1
DeleteSession(sid) == {r \in sessions : r.id # sid}

\* GetAndExtend has reported the session as expired.
NoteExpired(sid) == [hist EXCEPT !.expired = @ \cup {sid}]

\* Best effort cleanup, then ErrExpired.
GaeDelete(p) ==
    /\ pc[p] = "gae_delete"
    /\ sessions' = DeleteSession(loc[p].sid)
    /\ hist' = NoteExpired(loc[p].sid)
    /\ Return(p, loc[p], "ErrExpired")
    /\ UNCHANGED <<now, dbVerif, nextSession, dbOAuth, outbox, calls>>

\* The cleanup DELETE fails (_, _ = p.db.Exec(...)): the error is dropped,
\* the row stays and ErrExpired is returned all the same.
GaeDeleteFails(p) ==
    /\ pc[p] = "gae_delete"
    /\ sessions' = sessions
    /\ hist' = NoteExpired(loc[p].sid)
    /\ Return(p, [loc[p] EXCEPT !.writeErr = TRUE], "ErrExpired")
    /\ UNCHANGED <<now, dbVerif, nextSession, dbOAuth, outbox, calls>>

\* The UPDATE that restarts the session: it sets created_at as well.
ExtendSessionRestarting(sid, t) ==
    {IF r.id = sid THEN [r EXCEPT !.lastActiveAt = t, !.createdAt = t] ELSE r :
        r \in sessions}

\* UPDATE user_active_sessions SET last_active_at = $1 WHERE session_token = $2
ExtendSession(sid, t) ==
    {IF r.id = sid THEN [r EXCEPT !.lastActiveAt = t] ELSE r : r \in sessions}

\* Extend sliding TTL, then return the user id.
GaeExtend(p) ==
    /\ pc[p] = "gae_extend"
    /\ LET l == loc[p]
       IN /\ sessions' = ExtendSession(l.sid, l.t)
          /\ hist' = NoteValidated(l.sid, l.t)
          /\ Return(p, [l EXCEPT !.out = l.userId], "OK")
    /\ UNCHANGED <<now, dbVerif, nextSession, dbOAuth, outbox, calls>>

\* The extend UPDATE fails (_, _ = p.db.Exec(...)): the error is dropped, no
\* row is written and the user id is returned all the same.
GaeExtendFails(p) ==
    /\ pc[p] = "gae_extend"
    /\ LET l == loc[p]
       IN /\ sessions' = sessions
          /\ hist' = NoteValidated(l.sid, l.t)
          /\ Return(p, [l EXCEPT !.out = l.userId, !.writeErr = TRUE], "OK")
    /\ UNCHANGED <<now, dbVerif, nextSession, dbOAuth, outbox, calls>>

StartDelete(p, sid) ==
    /\ Start(p, [IdleLoc EXCEPT !.op = "Delete", !.sid = sid,
                 !.retry = sid \in hist.deleted], "del_exec")
    /\ UNCHANGED <<now, dbVerif, dbSess, dbOAuth, outbox, hist>>

DelExec(p) ==
    /\ pc[p] = "del_exec"
    /\ sessions' = DeleteSession(loc[p].sid)
    /\ Return(p, loc[p], "OK")
    /\ hist' = [hist EXCEPT !.deleted = @ \cup {loc[p].sid}]
    /\ UNCHANGED <<now, dbVerif, nextSession, dbOAuth, outbox, calls>>

----------------------------------------------------------------------------
(* Login *)

StartLogin(p, email, password) ==
    /\ SessionRoom
    /\ Start(p, [IdleLoc EXCEPT !.op = "Login", !.email = email,
                 !.password = password], "lgn_find")
    /\ UNCHANGED <<now, dbVerif, dbSess, dbOAuth, outbox, hist>>

\* The login test with the verification flag looked at before the password.
LoginResultVerifiedFirst(user, password) ==
    IF user.id = 0 THEN "ErrInvalidCredentials"
    ELSE IF ~user.emailVerified THEN "ErrEmailNotVerified"
    ELSE IF ~checkPasswordHash(password, user.passwordHash)
         THEN "ErrInvalidCredentials"
    ELSE "OK"

\* The login test without the verification flag.
LoginResultUnverifiedAllowed(user, password) ==
    IF user.id = 0 THEN "ErrInvalidCredentials"
    ELSE IF ~checkPasswordHash(password, user.passwordHash)
         THEN "ErrInvalidCredentials"
    ELSE "OK"

\* ErrNotFound -> ErrInvalidCredentials; !checkPasswordHash ->
\* ErrInvalidCredentials; !user.EmailVerified -> ErrEmailNotVerified
LoginResult(user, password) ==
    IF user.id = 0 THEN "ErrInvalidCredentials"
    ELSE IF ~checkPasswordHash(password, user.passwordHash)
         THEN "ErrInvalidCredentials"
    ELSE IF ~user.emailVerified THEN "ErrEmailNotVerified"
    ELSE "OK"

\* user, err := s.repo.FindByEmail(ctx, email) and the two tests on the row
LgnFind(p) ==
    /\ pc[p] = "lgn_find"
    /\ LET user == FindByEmail(loc[p].email)
           l == [loc[p] EXCEPT !.user = user, !.userId = user.id]
       IN IF LoginResult(user, l.password) = "OK"
          THEN Goto(p, l, "cas_now")
          ELSE Return(p, l, LoginResult(user, l.password))
    /\ UNCHANGED <<now, dbVerif, dbSess, dbOAuth, outbox, hist, calls>>

----------------------------------------------------------------------------
(* OAuth: InitiateOAuthLogin and HandleOAuthCallback *)

\* newOAuthProvider: "google" and "apple" are known.
SupportedProvider(provider) == provider \in {"google", "apple"}

\* GetOAuthStateByState: WHERE state = $1 LIMIT 1 (state is the primary key).
GetOAuthStateByState(state) == {r \in oauth : r.state = state}

\* DeleteOAuthState whose DELETE removes nothing.
DeleteOAuthStateLost(state) == oauth

\* DeleteOAuthState: DELETE FROM oauth_states WHERE state = $1.
DeleteOAuthState(state) == {r \in oauth : r.state # state}

StateRoom == nextState < MaxStateRows

\* The sweep that also takes the rows expiring at this very instant.
DeleteExpiredOAuthStatesInclusive(t) == {r \in oauth : ~(r.expiresAt <= t)}

\* DeleteExpiredOAuthStates: DELETE FROM oauth_states WHERE expires_at < now.
DeleteExpiredOAuthStates(t) == {r \in oauth : ~(r.expiresAt < t)}

\* One run of the cleanup: a single DELETE statement.
Sweep ==
    /\ oauth' = DeleteExpiredOAuthStates(now)
    /\ UNCHANGED <<now, dbVerif, dbSess, nextState, outbox, pc, loc, hist, calls>>

\* Time passes: up to max, and beyond it for as long as a state row has
\* its expiry ahead.
Elapse(max) ==
    /\ now < max \/ \E r \in oauth : ~(r.expiresAt < now)
    /\ now' = now + 1
    /\ UNCHANGED <<dbVerif, dbSess, dbOAuth, outbox, pc, loc, hist, calls>>

StartInitiateOAuth(p, provider) ==
    /\ StateRoom
    /\ Start(p, [IdleLoc EXCEPT !.op = "InitiateOAuth", !.provider = provider],
             "iol_insert")
    /\ UNCHANGED <<now, dbVerif, dbSess, dbOAuth, outbox, hist>>

\* newOAuthProvider, generateSecureToken(32), InsertOAuthState with
\* ExpiresAt: time.Now().Add(5 * time.Minute)
IolInsert(p) ==
    /\ pc[p] = "iol_insert"
    /\ LET l == loc[p]
       IN IF ~SupportedProvider(l.provider)
          THEN /\ UNCHANGED <<oauth, nextState>>
               /\ Return(p, l, "ErrUnsupportedOAuthProvider")
          ELSE /\ nextState' = nextState + 1
               /\ oauth' = oauth \cup {[state |-> nextState + 1,
                                        provider |-> l.provider,
                                        expiresAt |-> now + OAuthStateTTL]}
               /\ Return(p, [l EXCEPT !.out = nextState + 1], "OK")
    /\ UNCHANGED <<now, dbVerif, dbSess, outbox, hist, calls>>

\* state <= 0 stands for a state value that was never issued.
StartCallback(p, provider, state) ==
    /\ SessionRoom
    /\ Start(p, [IdleLoc EXCEPT !.op = "OAuthCallback", !.provider = provider,
                 !.state = state,
                 !.replay = state \in hist.exchanged,
                 !.retry = state \in hist.answered], "hoc_get")
    /\ UNCHANGED <<now, dbVerif, dbSess, dbOAuth, outbox, hist>>

\* newOAuthProvider, then GetOAuthStateByState
HocGet(p) ==
    /\ pc[p] = "hoc_get"
    /\ LET l == loc[p]
       IN IF ~SupportedProvider(l.provider)
          THEN Return(p, l, "ErrUnsupportedOAuthProvider")
          ELSE IF GetOAuthStateByState(l.state) = {}
               THEN Return(p, l, "ErrOAuthStateInvalid")
               ELSE \E r \in GetOAuthStateByState(l.state) :
                       Goto(p, [l EXCEPT !.st = r], "hoc_check")
    /\ UNCHANGED <<now, dbVerif, dbSess, dbOAuth, outbox, hist, calls>>

\* if time.Now().After(token.ExpiresAt) { return ErrOAuthStateExpired }
\* defer s.repo.DeleteOAuthState(ctx, state)
HocCheck(p) ==
    /\ pc[p] = "hoc_check"
    /\ LET l == [loc[p] EXCEPT !.t = now]
       IN IF Expired(l.t, l.st.expiresAt)
          THEN Return(p, l, "ErrOAuthStateExpired")
          ELSE Goto(p, l, "hoc_exchange")
    /\ hist' = [hist EXCEPT !.answered = @ \cup {loc[p].state}]
    /\ UNCHANGED <<now, dbVerif, dbSess, dbOAuth, outbox, calls>>

\* What the provider may answer: the Apple client secret cannot be made, the
\* code exchange or the user-info request fails, the profile has no email,
\* or a profile with an email arrives.
ProviderFailures(provider) ==
    {"ErrOAuthExchangeFailed", "ErrOAuthEmailMissing"}
        \cup (IF provider = "apple" THEN {"ErrInternal"} ELSE {})

\* Exchange, getUserInfo; a failure returns through the deferred delete.
HocExchange(p) ==
    /\ pc[p] = "hoc_exchange"
    /\ LET l == loc[p]
       IN \/ \E err \in ProviderFailures(l.provider) :
                Goto(p, [l EXCEPT !.res = err], "hoc_defer")
          \/ \E e \in Emails, n \in {"n1"} :
                Goto(p, [l EXCEPT !.email = e, !.firstName = n], "hoc_find")
    /\ UNCHANGED <<now, dbVerif, dbSess, dbOAuth, outbox, hist, calls>>

\* user, err := s.repo.FindByEmail(ctx, userInfo.Email)
HocFind(p) ==
    /\ pc[p] = "hoc_find"
    /\ LET l == loc[p]
           user == FindByEmail(l.email)
       IN IF user.id = 0
          THEN Goto(p, l, "hoc_create")
          ELSE Goto(p, [l EXCEPT !.user = user, !.userId = user.id], "cas_now")
    /\ UNCHANGED <<now, dbVerif, dbSess, dbOAuth, outbox, hist, calls>>

\* Provisioning: s.repo.Create(ctx, newUser) with EmailVerified: true
HocCreate(p) ==
    /\ pc[p] = "hoc_create"
    /\ LET l == loc[p]
           newUser == [id |-> Len(users) + 1, firstName |-> l.firstName,
                       lastName |-> "", email |-> l.email,
                       passwordHash |-> <<>>, emailVerified |-> TRUE]
       IN IF CreateUserOk(l.email)
          THEN /\ users' = Append(users, newUser)
               /\ Goto(p, [l EXCEPT !.user = newUser, !.userId = newUser.id],
                       "cas_now")
          ELSE /\ users' = users
               /\ Goto(p, [l EXCEPT !.res = "ErrInternal"], "hoc_defer")
    /\ UNCHANGED <<now, codes, tokens, nextToken, dbSess, dbOAuth, outbox, hist, calls>>

\* The deferred s.repo.DeleteOAuthState(ctx, state) runs as the function
\* returns; its result is dropped.
HocDefer(p) ==
    /\ pc[p] = "hoc_defer"
    /\ oauth' = DeleteOAuthState(loc[p].state)
    /\ hist' = [hist EXCEPT !.exchanged = @ \cup {loc[p].state}]
    /\ Return(p, loc[p], loc[p].res)
    /\ UNCHANGED <<now, dbVerif, dbSess, nextState, outbox, calls>>

----------------------------------------------------------------------------
(* Specifications *)

NoHist == [okOnce |-> {}, okTwice |-> {}, finOnce |-> {}, finTwice |-> {},
           wrongAll |-> [i \in 1 .. MaxCodeRows |-> 0],
           wrongLive |-> [i \in 1 .. MaxCodeRows |-> 0],
           lastOk |-> [i \in 1 .. MaxSessionRows |-> 0],
           exchanged |-> {}, answered |-> {}, deleted |-> {}, expired |-> {}]

Init ==
    /\ now = 0
    /\ users = <<>>
    /\ codes = <<>>
    /\ tokens = {}
    /\ nextToken = 0
    /\ sessions = {}
    /\ nextSession = 0
    /\ oauth = {}
    /\ nextState = 0
    /\ outbox = 0
    /\ pc = [p \in AllProcs |-> "idle"]
    /\ loc = [p \in AllProcs |-> IdleLoc]
    /\ hist = NoHist
    /\ calls = 0

\* Reset tokens a caller may present: none (""), one that was handed out,
\* or one that never was.
TokenInputs == (0 .. nextToken) \cup {-1}

\* The statements of createOrRefresh and of its three callers; the code
\* generator draws from `generated`.
IssueStep(p, generated) ==
    \/ CorGetByUser(p) \/ CorGetByContact(p) \/ CorNow(p, generated)
    \/ CorUpdate(p) \/ CorInsert(p)
    \/ RegFind(p) \/ RegCreate(p)
    \/ RsdFind(p) \/ IprFind(p)

\* The statements of the two verify handlers.
VerifyStep(p) ==
    \/ CevFind(p) \/ CevGet(p) \/ CevCheck(p) \/ CevInc(p)
    \/ CevConsume(p) \/ CevUpdate(p)
    \/ VprFind(p) \/ VprGet(p) \/ VprCheck(p) \/ VprInc(p)
    \/ VprConsume(p) \/ VprDelete(p) \/ VprCreate(p)

\* The statements of FinalizePasswordReset.
FinalizeStep(p) ==
    \/ FprFind(p) \/ FprCheck(p) \/ FprUpdatePassword(p) \/ FprConsume(p)

\* Requests that issue a code.
IssueStart(p, names) ==
    \/ \E e \in Emails, n \in names : StartRegister(p, n, "n1", e, "pw1")
    \/ \E e \in Emails : StartResend(p, e)
    \/ \E e \in Emails : StartInitiate(p, e)

\* Requests that submit a code.
VerifyStart(p, submitted) ==
    \/ \E e \in Emails, c \in submitted : StartConfirm(p, e, c)
    \/ \E e \in Emails, c \in submitted : StartVerifyReset(p, e, c)

(* SpecCodes: the five code-handling calls, interleaved. *)
NextCodes ==
    \/ \E p \in ConcProcs :
          \/ IssueStart(p, {"n1"}) \/ VerifyStart(p, {"c1", "c2"})
          \/ IssueStep(p, {"c1"}) \/ VerifyStep(p)
          \/ Finish(p)
    \/ Tick(MaxTimeConc)
    \/ Deliver

SpecCodes == Init /\ [][NextCodes]_vars

(* SpecSeq: every call of the verification and reset flows, one after the other. *)
NextSeq ==
    \/ \E p \in SeqProcs :
          \/ IssueStart(p, Names) \/ VerifyStart(p, Codes \cup {""})
          \/ \E t \in TokenInputs, w \in Passwords : StartFinalize(p, t, w)
          \/ IssueStep(p, Codes) \/ RegUpdate(p)
          \/ VerifyStep(p) \/ FinalizeStep(p)
          \/ Finish(p)
    \/ Tick(MaxTime)
    \/ Deliver

SpecSeq == Init /\ [][NextSeq]_vars

\* The statements of the session provider.
SessionStep(p) ==
    \/ CasNow(p) \/ CasInsert(p)
    \/ GaeSelect(p) \/ GaeCheck(p) \/ GaeDelete(p) \/ GaeExtend(p)
    \/ DelExec(p)

\* Session ids a caller may present: none or a malformed one (0), or an id
\* that CreateAuthSession has returned; an id still being inserted is known
\* to nobody.
SessionInputs ==
    {sid \in 0 .. nextSession :
        \A q \in AllProcs : ~(pc[q] = "cas_insert" /\ loc[q].sid = sid)}

(* SpecSession: the session provider, called by two tasks. *)
NextSession ==
    \/ \E p \in ConcProcs :
          \/ StartCreateAuthSession(p, 1)
          \/ \E sid \in SessionInputs : StartGetAndExtend(p, sid)
          \/ \E sid \in SessionInputs : StartDelete(p, sid)
          \/ SessionStep(p)
          \/ Finish(p)
    \/ Tick(MaxTimeSess)

SpecSession == Init /\ [][NextSession]_vars

\* The statements of the two OAuth handlers.
OAuthStep(p) ==
    \/ IolInsert(p)
    \/ HocGet(p) \/ HocCheck(p) \/ HocExchange(p) \/ HocFind(p)
    \/ HocCreate(p) \/ CasNow(p) \/ CasInsert(p) \/ HocDefer(p)

StateInputs == 0 .. nextState

(* SpecOAuth: the OAuth login flow, one call after the other. *)
NextOAuth ==
    \/ \E p \in SeqProcs :
          \/ \E v \in Providers \cup OtherProviders : StartInitiateOAuth(p, v)
          \/ \E v \in Providers \cup OtherProviders, st \in StateInputs :
                StartCallback(p, v, st)
          \/ OAuthStep(p)
          \/ Finish(p)
    \/ Tick(MaxTime)

SpecOAuth == Init /\ [][NextOAuth]_vars

\* The statements of ConfirmEmailVerification.
ConfirmStep(p) ==
    \/ CevFind(p) \/ CevGet(p) \/ CevCheck(p) \/ CevInc(p)
    \/ CevConsume(p) \/ CevUpdate(p)

\* The statements of Login.
LoginStep(p) ==
    \/ LgnFind(p) \/ CasNow(p) \/ CasInsert(p)

(* SpecAccount: registration, confirmation, forgotten password and login, *)
(* one call after the other.                                              *)
NextAccount ==
    \/ \E p \in AcctProcs :
          \/ IssueStart(p, Names)
          \/ \E e \in OtherEmails : StartRegister(p, "n1", "n1", e, "pw2")
          \/ \E e \in Emails, c \in Codes : StartConfirm(p, e, c)
          \/ \E e \in Emails, w \in Passwords : StartLogin(p, e, w)
          \/ IssueStep(p, {"c1"}) \/ RegUpdate(p)
          \/ ConfirmStep(p) \/ LoginStep(p)
          \/ Finish(p)
    \/ Tick(MaxTime)
    \/ Deliver

SpecAccount == Init /\ [][NextAccount]_vars

\* The statements of InitiatePasswordReset.
InitiateStep(p, generated) ==
    \/ IprFind(p)
    \/ CorGetByUser(p) \/ CorGetByContact(p) \/ CorNow(p, generated)
    \/ CorUpdate(p) \/ CorInsert(p)

\* The statements of VerifyPasswordResetCode.
VerifyResetStep(p) ==
    \/ VprFind(p) \/ VprGet(p) \/ VprCheck(p) \/ VprInc(p)
    \/ VprConsume(p) \/ VprDelete(p) \/ VprCreate(p)

\* The user HandleOAuthCallback provisions for a new email: verified, with
\* no password and no verification code.
ProvisionedUser(email) ==
    [id |-> 1, firstName |-> "n1", lastName |-> "", email |-> email,
     passwordHash |-> <<>>, emailVerified |-> TRUE]

\* The state after one InitiateOAuthLogin and its HandleOAuthCallback, both
\* at time 0: the state row is gone, the user and its session exist.
InitReset ==
    /\ now = 0
    /\ users = <<ProvisionedUser("a@x")>>
    /\ codes = <<>>
    /\ tokens = {}
    /\ nextToken = 0
    /\ sessions = {[id |-> 1, userId |-> 1, createdAt |-> 0, lastActiveAt |-> 0]}
    /\ nextSession = 1
    /\ oauth = {}
    /\ nextState = 1
    /\ outbox = 0
    /\ pc = [p \in AllProcs |-> "idle"]
    /\ loc = [p \in AllProcs |-> IdleLoc]
    /\ hist = [NoHist EXCEPT !.exchanged = {1}, !.answered = {1}]
    /\ calls = 0

(* SpecReset: the password reset flow of an account provisioned by an OAuth *)
(* login, one call after the other.                                         *)
NextReset ==
    \/ \E p \in AcctProcs :
          \/ \E e \in Emails : StartInitiate(p, e)
          \/ \E e \in Emails, c \in Codes : StartVerifyReset(p, e, c)
          \/ \E t \in TokenInputs, w \in Passwords : StartFinalize(p, t, w)
          \/ InitiateStep(p, {"c1"}) \/ VerifyResetStep(p) \/ FinalizeStep(p)
          \/ Finish(p)
    \/ Tick(MaxTime)
    \/ Deliver

SpecReset == InitReset /\ [][NextReset]_vars

(* SpecSignIn: password registration, login and the OAuth login flow on  *)
(* the same email, one call after the other.                             *)
NextSignIn ==
    \/ \E p \in SeqProcs :
          \/ \E e \in Emails, n \in Names : StartRegister(p, n, "n1", e, "pw1")
          \/ \E e \in Emails, w \in {"pw1"} : StartLogin(p, e, w)
          \/ \E v \in Providers : StartInitiateOAuth(p, v)
          \/ \E v \in Providers, st \in StateInputs : StartCallback(p, v, st)
          \/ RegFind(p) \/ RegCreate(p) \/ RegUpdate(p)
          \/ CorGetByUser(p) \/ CorGetByContact(p) \/ CorNow(p, {"c1"})
          \/ CorUpdate(p) \/ CorInsert(p)
          \/ LgnFind(p)
          \/ OAuthStep(p)
          \/ Finish(p)
    \/ Tick(MaxTime)
    \/ Deliver

SpecSignIn == Init /\ [][NextSignIn]_vars

\* The user row Register("n1", "n1", email, "pw1") creates.
RegisteredUser(email) ==
    [id |-> 1, firstName |-> "n1", lastName |-> "n1", email |-> email,
     passwordHash |-> hashPassword("pw1"), emailVerified |-> FALSE]

\* The state after Register, InitiatePasswordReset and
\* VerifyPasswordResetCode with the correct code, all at time 0: the user is
\* unverified, its email_verify code is active, its password_reset code is
\* consumed and its reset token is unconsumed.
InitRedeem ==
    /\ now = 0
    /\ users = <<RegisteredUser("a@x")>>
    /\ codes = <<[id |-> 1, userId |-> 1, contact |-> "a@x",
                  purpose |-> EmailVerify, channel |-> ChannelEmail,
                  codeHash |-> hashToken("c1"), attempts |-> 0,
                  maxAttempts |-> MaxAttempts, lastSentAt |-> 0,
                  expiresAt |-> TTLMinutes, consumed |-> FALSE, createdAt |-> 0],
                 [id |-> 2, userId |-> 1, contact |-> "a@x",
                  purpose |-> PasswordReset, channel |-> ChannelEmail,
                  codeHash |-> hashToken("c1"), attempts |-> 0,
                  maxAttempts |-> MaxAttempts, lastSentAt |-> 0,
                  expiresAt |-> TTLMinutes, consumed |-> TRUE, createdAt |-> 0]>>
    /\ tokens = {[id |-> 1, userId |-> 1, purpose |-> PasswordReset,
                  tokenHash |-> hashToken(1), expiresAt |-> ResetTokenTTL,
                  consumed |-> FALSE]}
    /\ nextToken = 1
    /\ sessions = {}
    /\ nextSession = 0
    /\ oauth = {}
    /\ nextState = 0
    /\ outbox = 0
    /\ pc = [p \in AllProcs |-> "idle"]
    /\ loc = [p \in AllProcs |-> IdleLoc]
    /\ hist = [NoHist EXCEPT !.okOnce = {2}]
    /\ calls = 0

(* SpecRedeem: two tasks redeem the reset token, interleaved. *)
NextRedeem ==
    \/ \E p \in ConcProcs :
          \/ \E t \in TokenInputs, w \in Passwords : StartFinalize(p, t, w)
          \/ FinalizeStep(p)
          \/ Finish(p)
    \/ Tick(MaxTime)

SpecRedeem == InitRedeem /\ [][NextRedeem]_vars

\* The task that redeems the reset token in SpecStale.
RedeemProcs == {"p1"}

(* SpecStale: one task redeems the reset token while another confirms the  *)
(* email or registers again.  With one task registering, createOrRefresh   *)
(* always finds the user's active row: it never looks up by contact and    *)
(* never inserts.                                                          *)
NextStale ==
    \/ \E p \in RedeemProcs :
          \/ \E t \in 1 .. nextToken, w \in {"pw2"} : StartFinalize(p, t, w)
          \/ FinalizeStep(p)
          \/ Finish(p)
    \/ \E p \in AcctProcs :
          \/ \E e \in Emails, c \in Codes : StartConfirm(p, e, c)
          \/ \E e \in Emails, n \in Names : StartRegister(p, n, "n1", e, "pw1")
          \/ ConfirmStep(p)
          \/ RegFind(p) \/ RegUpdate(p)
          \/ CorGetByUser(p) \/ CorNow(p, {"c1"}) \/ CorUpdate(p)
          \/ Finish(p)
    \/ Tick(MaxTimeConc)
    \/ Deliver

SpecStale == InitRedeem /\ [][NextStale]_vars

\* The two tasks that issue codes in SpecResend.
ResendProcs == {"p1", "a1"}

(* SpecResend: two tasks register and ask for the verification email again, *)
(* interleaved.                                                             *)
NextResend ==
    \/ \E p \in ResendProcs :
          \/ \E e \in Emails, n \in Names : StartRegister(p, n, "n1", e, "pw1")
          \/ \E e \in Emails : StartResend(p, e)
          \/ RegFind(p) \/ RegCreate(p) \/ RegUpdate(p)
          \/ RsdFind(p)
          \/ CorGetByUser(p) \/ CorGetByContact(p) \/ CorNow(p, {"c1"})
          \/ CorUpdate(p) \/ CorInsert(p)
          \/ Finish(p)
    \/ Tick(MaxTime)
    \/ Deliver

SpecResend == Init /\ [][NextResend]_vars

\* The state after Register("n1", "n1", "a@x", "pw1") at time 0, its
\* notification sent: the user is unverified and its email_verify code is
\* active.
InitLostRefresh ==
    /\ now = 0
    /\ users = <<RegisteredUser("a@x")>>
    /\ codes = <<[id |-> 1, userId |-> 1, contact |-> "a@x",
                  purpose |-> EmailVerify, channel |-> ChannelEmail,
                  codeHash |-> hashToken("c1"), attempts |-> 0,
                  maxAttempts |-> MaxAttempts, lastSentAt |-> 0,
                  expiresAt |-> TTLMinutes, consumed |-> FALSE, createdAt |-> 0]>>
    /\ tokens = {}
    /\ nextToken = 0
    /\ sessions = {}
    /\ nextSession = 0
    /\ oauth = {}
    /\ nextState = 0
    /\ outbox = 0
    /\ pc = [p \in AllProcs |-> "idle"]
    /\ loc = [p \in AllProcs |-> IdleLoc]
    /\ hist = NoHist
    /\ calls = 0

\* The task that confirms the email in SpecLostRefresh.
ConfirmProcs == {"p2"}

(* SpecLostRefresh: two tasks ask for the verification email again while a *)
(* third confirms the email.                                               *)
NextLostRefresh ==
    \/ \E p \in ResendProcs :
          \/ \E e \in Emails : StartResend(p, e)
          \/ RsdFind(p)
          \/ CorGetByUser(p) \/ CorGetByContact(p) \/ CorNow(p, {"c2"})
          \/ CorUpdate(p) \/ CorInsert(p)
          \/ Finish(p)
    \/ \E p \in ConfirmProcs :
          \/ \E e \in Emails, c \in Codes : StartConfirm(p, e, c)
          \/ ConfirmStep(p)
          \/ Finish(p)
    \/ Tick(MaxTimeConc)
    \/ Deliver

SpecLostRefresh == InitLostRefresh /\ [][NextLostRefresh]_vars

(* SpecExtend: sessions created and validated one call after the other, *)
(* with an extend write that may fail.                                  *)
NextExtend ==
    \/ \E p \in SeqProcs :
          \/ StartCreateAuthSession(p, 1)
          \/ \E sid \in SessionInputs : StartGetAndExtend(p, sid)
          \/ CasNow(p) \/ CasInsert(p)
          \/ GaeSelect(p) \/ GaeCheck(p) \/ GaeDelete(p)
          \/ GaeExtend(p) \/ GaeExtendFails(p)
          \/ Finish(p)
    \/ Tick(MaxTimeSess)

SpecExtend == Init /\ [][NextExtend]_vars

(* SpecConfirm: registration and email verification, one call after the *)
(* other, with a user update that may fail.                             *)
NextConfirm ==
    \/ \E p \in AcctProcs :
          \/ \E e \in Emails, n \in Names : StartRegister(p, n, "n1", e, "pw1")
          \/ \E e \in Emails, c \in Codes : StartConfirm(p, e, c)
          \/ RegFind(p) \/ RegCreate(p) \/ RegUpdate(p)
          \/ CorGetByUser(p) \/ CorGetByContact(p) \/ CorNow(p, Codes)
          \/ CorUpdate(p) \/ CorInsert(p)
          \/ ConfirmStep(p) \/ CevUpdateFails(p)
          \/ Finish(p)
    \/ Tick(MaxTime)
    \/ Deliver

SpecConfirm == Init /\ [][NextConfirm]_vars

(* SpecVerify: codes issued and submitted for both purposes, one call *)
(* after the other.                                                   *)
NextVerify ==
    \/ \E p \in AcctProcs :
          \/ IssueStart(p, {"n1"}) \/ VerifyStart(p, Codes)
          \/ IssueStep(p, Codes) \/ VerifyStep(p)
          \/ Finish(p)
    \/ Tick(MaxTime)
    \/ Deliver

SpecVerify == Init /\ [][NextVerify]_vars

(* SpecSweep: the OAuth login flow with the cleanup of expired states. The *)
(* cleanup is run again and again and time does not stop: weak fairness   *)
(* of Sweep and of Elapse.                                                *)
NextSweep ==
    \/ \E p \in SeqProcs :
          \/ \E v \in Providers : StartInitiateOAuth(p, v)
          \/ \E v \in Providers, st \in StateInputs : StartCallback(p, v, st)
          \/ OAuthStep(p)
          \/ Finish(p)
    \/ Elapse(MaxTime)
    \/ Sweep

SpecSweep ==
    Init /\ [][NextSweep]_vars /\ WF_vars(Sweep) /\ WF_vars(Elapse(MaxTime))

(* SpecExpire: GetAndExtend called by two tasks, with best-effort writes *)
(* (the cleanup DELETE, the extend UPDATE) that may fail.                *)
NextExpire ==
    \/ \E p \in ConcProcs :
          \/ StartCreateAuthSession(p, 1)
          \/ \E sid \in SessionInputs : StartGetAndExtend(p, sid)
          \/ CasNow(p) \/ CasInsert(p)
          \/ GaeSelect(p) \/ GaeCheck(p)
          \/ GaeDelete(p) \/ GaeDeleteFails(p)
          \/ GaeExtend(p) \/ GaeExtendFails(p)
          \/ Finish(p)
    \/ Tick(MaxTimeSess)

SpecExpire == Init /\ [][NextExpire]_vars

----------------------------------------------------------------------------
(* Properties of the verification codes and the reset tokens *)

\* Calls that have returned to their caller.
Returned(procs, ops) == {p \in procs : pc[p] = "done" /\ loc[p].op \in ops}

VerifyOps == {"Confirm", "VerifyReset"}
IssueOps == {"Register", "Resend", "Initiate"}

SameContactKey(r1, r2) ==
    /\ r1.contact = r2.contact
    /\ r1.purpose = r2.purpose
    /\ r1.channel = r2.channel

SameUserKey(r1, r2) ==
    /\ r1.userId # 0
    /\ r1.userId = r2.userId
    /\ r1.purpose = r2.purpose
    /\ r1.channel = r2.channel

\* C1: in every reachable state, whatever the interleaving of Register,
\* ResendEmailVerification, InitiatePasswordReset, ConfirmEmailVerification
\* and VerifyPasswordResetCode, no two unconsumed verification_codes rows
\* share (contact, purpose, channel), and no two with a user share
\* (user, purpose, channel).
C1_OneActiveRowPerKey ==
    \A i, j \in DOMAIN codes :
        (i # j /\ IsNull(codes[i].consumed) /\ IsNull(codes[j].consumed))
            => /\ ~SameContactKey(codes[i], codes[j])
               /\ ~SameUserKey(codes[i], codes[j])

\* Two issuing calls have raced for one key: the insert of one of them was
\* refused while the row of the other is active.
C1_InsertRefused ==
    \E p \in ConcProcs :
        /\ pc[p] = "done" /\ loc[p].op \in IssueOps
        /\ loc[p].corErr = "ErrInternal"
        /\ \E i \in DOMAIN codes :
              /\ IsNull(codes[i].consumed)
              /\ SameContactKey(codes[i], NewCodeRow(loc[p]))

\* C2: of two verify calls with the correct code that run concurrently on one
\* active row, at most one reports success; a call whose conditional consume
\* matched no row does not return success and issues no action token.
C2_OnlyTheConsumerSucceeds ==
    /\ hist.okTwice = {}
    /\ \A p \in Returned(ConcProcs, VerifyOps) :
          (loc[p].vc.id # 0 /\ CodeMatches(loc[p].code, loc[p].vc) /\ ~loc[p].won)
              => (loc[p].res # "OK" /\ loc[p].out = 0)

\* The first correct and timely verify call of a row.
Accepted(l) ==
    /\ l.vc.id # 0
    /\ CodeMatches(l.code, l.vc)
    /\ ~Expired(l.t, l.vc.expiresAt)

NthWrongAnswer(n, max) ==
    IF n = max THEN "ErrTooManyAttempts" ELSE "ErrInvalidOTP"

\* C4 as stated: counting the consecutive verify calls with a wrong code on
\* a row since it was created or refreshed, calls 1 .. N-1 return
\* ErrInvalidOTP and call N = max_attempts returns ErrTooManyAttempts.
C4_NthWrongCode ==
    \A p \in Returned(SeqProcs, VerifyOps) :
        (loc[p].nthAll >= 1 /\ loc[p].nthAll <= loc[p].vc.maxAttempts)
            => loc[p].res = NthWrongAnswer(loc[p].nthAll, loc[p].vc.maxAttempts)

\* C4 amended: counting the consecutive verify calls with a wrong code made
\* before the row expires, calls 1 .. N-1 return ErrInvalidOTP and call
\* N = max_attempts returns ErrTooManyAttempts; a wrong code on an expired
\* row returns ErrInvalidOTP and is not counted.
C4_NthWrongCodeBeforeExpiry ==
    \A p \in Returned(SeqProcs, VerifyOps) :
        (loc[p].vc.id # 0 /\ ~CodeMatches(loc[p].code, loc[p].vc))
            => IF Expired(loc[p].t, loc[p].vc.expiresAt)
               THEN /\ loc[p].res = "ErrInvalidOTP"
                    /\ codes[loc[p].vc.id].attempts = loc[p].vc.attempts
               ELSE (loc[p].nthLive >= 1 /\ loc[p].nthLive <= loc[p].vc.maxAttempts)
                       => loc[p].res = NthWrongAnswer(loc[p].nthLive,
                                                      loc[p].vc.maxAttempts)

\* The N-th wrong code in time has been answered with ErrTooManyAttempts.
C4_LockedAtNth ==
    \E p \in Returned(SeqProcs, VerifyOps) :
        /\ loc[p].nthLive = loc[p].vc.maxAttempts
        /\ ~Expired(loc[p].t, loc[p].vc.expiresAt)
        /\ loc[p].res = "ErrTooManyAttempts"

\* The call found an active row sent less than the cooldown ago.
WithinCooldown(l) ==
    /\ l.vc.id # 0
    /\ l.t - l.vc.lastSentAt < ResendCooldownSeconds

\* C5: createOrRefreshVerificationCode, called for a key whose active row
\* has now - last_sent_at < cooldown, returns ErrResendTooSoon, leaves the
\* row (code hash, expiry, attempts, last_sent_at) as it was and inserts no
\* row.
C5_TooSoonLeavesRow ==
    \A p \in Returned(SeqProcs, IssueOps) :
        WithinCooldown(loc[p])
            => /\ loc[p].corErr = "ErrResendTooSoon"
               /\ codes[loc[p].vc.id] = loc[p].vc
               /\ Len(codes) = loc[p].rows0

\* A second request within the cooldown of a row has been refused.
C5_RefusedWithinCooldown ==
    \E p \in Returned(SeqProcs, IssueOps) :
        /\ WithinCooldown(loc[p])
        /\ loc[p].corErr = "ErrResendTooSoon"
        /\ ~codes[loc[p].vc.id].consumed

\* The password hashes of all users.
PasswordHashes == [i \in DOMAIN users |-> users[i].passwordHash]

Usable(t) == IsNull(t.consumed) /\ ~Expired(now, t.expiresAt)

\* C7: at every instant at most one unconsumed, unexpired action token
\* exists per (user, purpose), also when two issuing calls interleave.
C7_OneUsableToken ==
    \A t1, t2 \in tokens :
        (Usable(t1) /\ Usable(t2)
         /\ t1.userId = t2.userId /\ t1.purpose = t2.purpose)
            => t1 = t2

----------------------------------------------------------------------------
(* Properties of the sessions *)

\* C8: GetAndExtend accepts a session at the time of its creation; it
\* rejects it once more than AbsoluteTTL has passed since its creation, also
\* when the last successful validation is no more than SlidingTTL ago; and
\* it rejects it once more than SlidingTTL has passed since the last
\* successful validation (or the creation).
C8_SessionLifetime ==
    \A p \in Returned(ConcProcs, {"GetAndExtend"}) :
        LET l == loc[p]
        IN l.sess.id # 0 =>
              /\ l.t = l.sess.createdAt
                    => (l.res = "OK" /\ l.out = l.sess.userId)
              /\ l.t - l.sess.createdAt > AbsoluteTTL => l.res = "ErrExpired"
              /\ l.t - l.lastOk0 > SlidingTTL => l.res = "ErrExpired"

\* A session validated no more than SlidingTTL ago has been rejected because
\* its absolute lifetime is over.
C8_RejectedThoughValidated ==
    \E p \in Returned(ConcProcs, {"GetAndExtend"}) :
        LET l == loc[p]
        IN /\ l.sess.id # 0
           /\ l.lastOk0 > l.sess.createdAt
           /\ l.t - l.lastOk0 <= SlidingTTL
           /\ l.t - l.sess.createdAt > AbsoluteTTL
           /\ l.res = "ErrExpired"

----------------------------------------------------------------------------
(* Properties of the OAuth states *)

C10_StateRowGoneOnReturn ==
    \A p \in Returned(SeqProcs, {"OAuthCallback"}) :
        loc[p].st.state # 0 => GetOAuthStateByState(loc[p].state) = {}

----------------------------------------------------------------------------
(* Properties of the account flows, for calls made one after the other *)

\* C11: InitiatePasswordReset reports success to its caller for every email
\* in every reachable state, whether or not a user with that email exists,
\* also when the call is repeated within the resend cooldown.
C11_InitiateAlwaysSucceeds ==
    \A p \in Returned(AcctProcs, {"Initiate"}) : loc[p].res = "OK"

\* The ids of the session rows of a table.
SessionIds(S) == {r.id : r \in S}

\* C12: Login with the correct password of a user whose email is not
\* verified returns ErrEmailNotVerified and creates no session; with the
\* correct password of a verified user it adds exactly one session row, of
\* that user, and returns its id, which no earlier session has.
C12_LoginGatedOnVerification ==
    \A p \in Returned(AcctProcs, {"Login"}) :
        LET l == loc[p]
        IN (l.user.id # 0 /\ checkPasswordHash(l.password, l.user.passwordHash))
              => IF ~l.user.emailVerified
                 THEN /\ l.res = "ErrEmailNotVerified"
                      /\ l.out = 0
                      /\ sessions = l.before.sessions
                 ELSE /\ l.res = "OK"
                      /\ l.before.sessions \subseteq sessions
                      /\ l.out \notin SessionIds(l.before.sessions)
                      /\ \E r \in sessions :
                            /\ r.id = l.out /\ r.userId = l.user.id
                            /\ sessions = l.before.sessions \cup {r}

\* A verified user has logged in a second time and holds two sessions with
\* different ids.
C12_SecondLoginNewSession ==
    \E p \in Returned(AcctProcs, {"Login"}) :
        /\ loc[p].res = "OK"
        /\ loc[p].before.sessions # {}
        /\ loc[p].out \in SessionIds(sessions) \ SessionIds(loc[p].before.sessions)

\* C13: Login with a wrong password returns ErrInvalidCredentials whether
\* the email is unknown, belongs to an unverified user or belongs to a
\* verified user; ErrEmailNotVerified is returned only to a caller whose
\* password has matched.
C13_PasswordBeforeVerification ==
    \A p \in Returned(AcctProcs, {"Login"}) :
        LET l == loc[p]
            matched == l.user.id # 0
                         /\ checkPasswordHash(l.password, l.user.passwordHash)
        IN /\ ~matched => (l.res = "ErrInvalidCredentials"
                           /\ sessions = l.before.sessions)
           /\ l.res = "ErrEmailNotVerified" => matched

\* A wrong password for an unverified user has been answered with
\* ErrInvalidCredentials.
C13_WrongPasswordUnverified ==
    \E p \in Returned(AcctProcs, {"Login"}) :
        /\ loc[p].user.id # 0
        /\ ~loc[p].user.emailVerified
        /\ ~checkPasswordHash(loc[p].password, loc[p].user.passwordHash)
        /\ loc[p].res = "ErrInvalidCredentials"

\* The user that had this email when the call began (NoUser if none).
UserBefore(l) ==
    IF \E i \in DOMAIN l.before.users : l.before.users[i].email = l.email
    THEN l.before.users[CHOOSE i \in DOMAIN l.before.users :
                            l.before.users[i].email = l.email]
    ELSE NoUser

\* C14: Register with the email of a verified user fails with
\* ErrEmailExists and changes nothing: no user row is written, no
\* verification code is created or refreshed, no notification is dispatched.
C14_VerifiedEmailConflict ==
    \A p \in Returned(AcctProcs, {"Register"}) :
        LET l == loc[p]
        IN UserBefore(l).emailVerified
              => /\ l.res = "ErrEmailExists"
                 /\ users = l.before.users
                 /\ codes = l.before.codes
                 /\ l.corErr = ""
                 /\ outbox <= l.before.outbox

\* Register has been refused for a verified user under another name.
C14_ConflictUnderNewName ==
    \E p \in Returned(AcctProcs, {"Register"}) :
        /\ loc[p].res = "ErrEmailExists"
        /\ UserBefore(loc[p]).emailVerified
        /\ UserBefore(loc[p]).firstName # loc[p].firstName

\* The call began with an unverified user of its email.
ReRegistration(l) == UserBefore(l).id # 0 /\ ~UserBefore(l).emailVerified

\* C15: Register with the email of an existing unverified user is a
\* re-registration: it adds no user row, sets the first and last name, runs
\* createOrRefresh for email_verify and returns the existing user; within the
\* cooldown createOrRefresh is refused, the code rows stay as they were and no
\* notification is dispatched, and Register still returns the user; outside
\* the cooldown the user's active row carries a code sent at the time of the
\* call.
C15_ReRegistration ==
    \A p \in Returned(AcctProcs, {"Register"}) :
        LET l == loc[p]
            u0 == UserBefore(l)
        IN ReRegistration(l)
              => /\ l.res = "OK"
                 /\ l.user.id = u0.id
                 /\ Len(users) = Len(l.before.users)
                 /\ users[u0.id] = [u0 EXCEPT !.firstName = l.firstName,
                                              !.lastName = l.lastName]
                 /\ l.corErr # ""
                 /\ l.vc.purpose = EmailVerify
                 /\ IF WithinCooldown(l)
                    THEN /\ l.corErr = "ErrResendTooSoon"
                         /\ codes = l.before.codes
                         /\ outbox <= l.before.outbox
                    ELSE /\ l.corErr = "OK"
                         /\ Len(codes) = Len(l.before.codes)
                         /\ codes[l.vc.id].lastSentAt = l.t
                         /\ codes[l.vc.id].codeHash = hashToken(l.newCode)
                         /\ IsNull(codes[l.vc.id].consumed)

\* A re-registration under another name has been rate-limited and has still
\* returned the user, renamed.
C15_RateLimitedReRegistration ==
    \E p \in Returned(AcctProcs, {"Register"}) :
        /\ ReRegistration(loc[p])
        /\ loc[p].corErr = "ErrResendTooSoon"
        /\ loc[p].res = "OK"
        /\ UserBefore(loc[p]).firstName # loc[p].firstName
        /\ users[loc[p].user.id].firstName = loc[p].firstName

\* The users that have this email.
UsersWithEmail(email) == {i \in DOMAIN users : users[i].email = email}

\* The active email_verify rows of a user.
ActiveVerifyRows(userId) ==
    ActiveRows({r \in Range(codes) : r.userId = userId /\ r.purpose = EmailVerify})

C17_ConfirmVerifiesAndConsumes ==
    \A p \in Returned(AcctProcs, {"Confirm"}) :
        LET l == loc[p]
        IN (Accepted(l) /\ ~UserBefore(l).emailVerified)
              => /\ l.res = "OK"
                 /\ users[l.user.id].emailVerified
                 /\ users[l.user.id]
                       = [UserBefore(l) EXCEPT !.emailVerified = TRUE]
                 /\ codes[l.vc.id].consumed
                 /\ ActiveVerifyRows(l.user.id) = {}

\* A confirmation has verified a user whose code had been sent twice.
C17_Confirmed ==
    \E p \in Returned(AcctProcs, {"Confirm"}) :
        /\ Accepted(loc[p])
        /\ ~UserBefore(loc[p]).emailVerified
        /\ loc[p].res = "OK"
        /\ loc[p].vc.lastSentAt > loc[p].vc.createdAt

\* The stored rows of a plaintext reset token.
TokenRows(raw) == {t \in tokens : t.tokenHash = hashToken(raw)}

\* C18: VerifyPasswordResetCode with the correct, unexpired code returns a
\* plaintext token that no stored row had, whose hash is stored in exactly
\* one row, an unconsumed password_reset token of that user, and the code
\* row is consumed; a token is returned only by a call whose code check has
\* succeeded, and a token row exists only for a user one of whose
\* password_reset codes is consumed.
C18_TokenAfterCodeCheck ==
    /\ \A p \in Returned(AcctProcs, {"VerifyReset"}) :
          LET l == loc[p]
          IN /\ Accepted(l)
                   => /\ l.res = "OK"
                      /\ l.out # 0
                      /\ \A t \in l.before.tokens :
                            t.tokenHash # hashToken(l.out)
                      /\ Cardinality(TokenRows(l.out)) = 1
                      /\ \A t \in TokenRows(l.out) :
                            /\ t.userId = l.user.id
                            /\ t.purpose = PasswordReset
                            /\ IsNull(t.consumed)
                      /\ codes[l.vc.id].consumed
                      /\ codes[l.vc.id].purpose = PasswordReset
             /\ l.out # 0 => Accepted(l)
    /\ \A t \in tokens :
          \E i \in DOMAIN codes :
              /\ codes[i].consumed
              /\ codes[i].purpose = PasswordReset
              /\ codes[i].userId = t.userId

\* A reset code has been verified while an earlier reset token of the user
\* was stored.
C18_TokenIssued ==
    \E p \in Returned(AcctProcs, {"VerifyReset"}) :
        /\ Accepted(loc[p])
        /\ loc[p].before.tokens # {}
        /\ TokenRows(loc[p].out) # {}

----------------------------------------------------------------------------
(* Properties of session deletion *)

\* C20: Delete returns no error whether or not a row of the session id
\* exists; once Delete has returned for an id, no row of that id exists, also
\* after a second Delete; and every GetAndExtend that starts after Delete has
\* returned yields ErrNotFound for that id.
C20_DeleteIdempotent ==
    /\ \A p \in Returned(ConcProcs, {"Delete"}) : loc[p].res = "OK"
    /\ \A sid \in hist.deleted : SessionRows(sid) = {}
    /\ \A p \in Returned(ConcProcs, {"GetAndExtend"}) :
          loc[p].replay => (loc[p].res = "ErrNotFound" /\ loc[p].out = 0)

\* A session has been deleted a second time, without error, while another
\* session is open.
C20_DeletedTwice ==
    \E p \in Returned(ConcProcs, {"Delete"}) :
        /\ loc[p].retry
        /\ loc[p].sid > 0
        /\ loc[p].res = "OK"
        /\ sessions # {}

----------------------------------------------------------------------------
(* Properties of notification dispatch *)

\* The step of an issuing call that writes its code row.
WritesCodeRow(p) ==
    /\ loc[p].op \in IssueOps
    /\ pc[p] \in {"cor_update", "cor_insert"}
    /\ codes' # codes

\* The end of a notification goroutine leaves every row and every call's
\* position and result as they are.
DeliveryChangesNothing ==
    outbox' < outbox
       => UNCHANGED <<users, codes, tokens, nextToken, sessions, nextSession,
                      oauth, nextState, pc, loc>>

\* The step that writes the code row is the step in which the call returns
\* and its notification goroutine is started.
ReturnsOnceRowWritten ==
    \A p \in AcctProcs :
        WritesCodeRow(p)
           => /\ pc'[p] = "done"
              /\ loc'[p].res = "OK"
              /\ outbox' = outbox + 1
              /\ \E i \in DOMAIN codes' :
                    /\ codes'[i].codeHash = hashToken(loc'[p].newCode)
                    /\ ~codes'[i].consumed

\* C21: the result and the store effects of Register,
\* ResendEmailVerification and InitiatePasswordReset do not depend on
\* notification delivery: each call returns in the step that writes the code
\* row, with the send still outstanding, and the end of a send, delivered or
\* failed, changes no stored row and no returned result; a send that never
\* ends changes nothing either.
C21_DeliveryDecoupled ==
    [][DeliveryChangesNothing /\ ReturnsOnceRowWritten]_vars

\* An issuing call has returned its result while its send is outstanding.
C21_ReturnedBeforeSend ==
    \E p \in Returned(AcctProcs, IssueOps) :
        /\ loc[p].corErr = "OK"
        /\ loc[p].res = "OK"
        /\ outbox > 0
        /\ codes # loc[p].before.codes

----------------------------------------------------------------------------
(* Properties of the answers of the verify calls *)

\* The purpose whose code a verify call checks.
VerifyPurpose(op) == IF op = "Confirm" THEN EmailVerify ELSE PasswordReset

\* When the call started, the user of its email had no active code of the
\* call's purpose.
NoActiveCodeBefore(l) ==
    ActiveRows({r \in Range(l.before.codes) :
                   /\ r.userId = UserBefore(l).id
                   /\ r.purpose = VerifyPurpose(l.op)}) = {}

\* The call read a row and submitted a wrong code that left the row below
\* its attempt limit.
WrongBelowLimit(l) ==
    /\ l.vc.id # 0
    /\ ~Expired(l.t, l.vc.expiresAt)
    /\ ~CodeMatches(l.code, l.vc)
    /\ l.vc.attempts + 1 < l.vc.maxAttempts

\* C22: a ConfirmEmailVerification or VerifyPasswordResetCode call whose
\* email is unknown, whose user has no active code, whose code row is expired
\* or whose code is wrong below the attempt limit returns ErrInvalidOTP, and
\* every call returns success, ErrInvalidOTP, ErrTooManyAttempts or the
\* internal error.
C22_InvalidCasesCollapse ==
    \A p \in Returned(AcctProcs, VerifyOps) :
        LET l == loc[p]
        IN /\ l.res \in {"OK", "ErrInvalidOTP", "ErrTooManyAttempts", "ErrInternal"}
           /\ (\/ UserBefore(l).id = 0
               \/ NoActiveCodeBefore(l)
               \/ l.vc.id # 0 /\ Expired(l.t, l.vc.expiresAt)
               \/ WrongBelowLimit(l))
                 => l.res = "ErrInvalidOTP"

\* C23: a verify call that reads a code row whose attempts have reached
\* max_attempts does not succeed, whatever code it submits: the row stays
\* locked until createOrRefresh resets its attempts.
C23_LockedRowRefuses ==
    \A p \in Returned(SeqProcs, VerifyOps) :
        (loc[p].vc.id # 0 /\ loc[p].vc.attempts >= loc[p].vc.maxAttempts)
            => (loc[p].res # "OK" /\ loc[p].out = 0)

----------------------------------------------------------------------------
(* Properties of session creation *)

\* C24: a session row is only ever created for a user whose email_verified
\* is true at that time, by Login and by HandleOAuthCallback alike, also
\* when the OAuth identity's email is that of a password-registered user
\* who has not verified it.
C24_SessionOnlyForVerified ==
    [][\A s \in sessions' \ sessions :
          /\ s.userId \in DOMAIN users'
          /\ users'[s.userId].emailVerified]_vars

----------------------------------------------------------------------------
(* Properties of concurrent password resets *)

\* The FinalizePasswordReset call of task p has written its password.
PasswordWritten(p) ==
    /\ loc[p].op = "Finalize"
    /\ loc[p].at.id # 0
    /\ \/ pc[p] = "fpr_consume"
       \/ pc[p] = "done" /\ loc[p].res = "OK"

\* C25: of two concurrent FinalizePasswordReset calls with the same valid
\* token at most one returns success, and at most one writes its password.
C25_OneRedeemerWins ==
    /\ hist.finTwice = {}
    /\ \A p, q \in ConcProcs :
          (p # q /\ PasswordWritten(p) /\ PasswordWritten(q))
              => loc[p].at.id # loc[q].at.id

----------------------------------------------------------------------------
(* Properties of concurrent resends *)

\* createOrRefresh has returned a code to the issuing call of task p.
GotCode(p) ==
    /\ pc[p] = "done"
    /\ loc[p].op \in IssueOps
    /\ loc[p].corErr = "OK"

\* The time between the clock readings of two calls.
TimeApart(l1, l2) == IF l1.t >= l2.t THEN l1.t - l2.t ELSE l2.t - l1.t

\* C26: two createOrRefresh calls for one (user, purpose, channel) that both
\* return a code are at least the resend cooldown apart, also when they run
\* concurrently and have both read the same active row after its cooldown.
C26_CodesSpacedByCooldown ==
    \A p, q \in ResendProcs :
        (/\ p # q
         /\ GotCode(p) /\ GotCode(q)
         /\ loc[p].user.id = loc[q].user.id
         /\ PurposeOf(loc[p].op) = PurposeOf(loc[q].op))
            => TimeApart(loc[p], loc[q]) >= ResendCooldownSeconds

\* C27: once FinalizePasswordReset has stored a new password hash, the hash
\* stays until the next password change: the only step that changes a stored
\* hash is the password update of a FinalizePasswordReset call, and a
\* concurrent ConfirmEmailVerification or re-registration, which write the
\* user row back from an earlier read, do not put the old hash back.
C27_HashKeptUntilNextReset ==
    [][\A i \in DOMAIN users :
          (i \in DOMAIN users' /\ users'[i].passwordHash # users[i].passwordHash)
              => \E p \in RedeemProcs :
                    /\ pc[p] = "fpr_updpw"
                    /\ pc'[p] = "fpr_consume"
                    /\ loc[p].at.userId = users[i].id
                    /\ users'[i].passwordHash = hashPassword(loc[p].password)]_vars

----------------------------------------------------------------------------
(* Properties of the refresh of a code row *)

\* createOrRefresh read an active row whose cooldown had elapsed.
CooldownElapsed(l) ==
    /\ l.vc.id # 0
    /\ l.corErr # ""
    /\ l.t - l.vc.lastSentAt >= ResendCooldownSeconds

\* C28: in a sequential run, createOrRefresh that finds an active row whose
\* cooldown has elapsed returns a code and refreshes that row in place: the
\* hash is that of the new code, expiry = now + ttl, attempts = 0,
\* last_sent_at = now, max_attempts is the configured value; no row is
\* inserted and the row's id, owner, contact, purpose, channel, created_at
\* and consumed_at are as they were read.
C28_RefreshInPlace ==
    \A p \in Returned(SeqProcs, IssueOps) :
        LET l == loc[p]
        IN CooldownElapsed(l)
              => /\ l.corErr = "OK"
                 /\ Len(codes) = l.rows0
                 /\ codes[l.vc.id]
                       = [l.vc EXCEPT !.codeHash = hashToken(l.newCode),
                                      !.expiresAt = l.t + TTLMinutes,
                                      !.attempts = 0,
                                      !.lastSentAt = l.t,
                                      !.maxAttempts = MaxAttempts]

\* A row that had counted a wrong code has been refreshed with another code.
C28_Refreshed ==
    \E p \in Returned(SeqProcs, IssueOps) :
        /\ CooldownElapsed(loc[p])
        /\ loc[p].vc.attempts > 0
        /\ loc[p].vc.codeHash # hashToken(loc[p].newCode)
        /\ codes[loc[p].vc.id].attempts = 0

\* The refresh of the issuing call affected zero rows: the call read an
\* active row, passed the cooldown test, and its UPDATE found the row
\* consumed.
LostRefresh(l) == l.lost.id # 0

\* The active rows of the key of the row the call read.
ActiveRowsOfKey(vc) ==
    ActiveRows({r \in Range(codes) : SameContactKey(r, vc)})

\* The row the call read is consumed, and is the row its UPDATE found
\* consumed.
ConsumedRowKept(l) ==
    /\ codes[l.vc.id].consumed
    /\ codes[l.vc.id] = l.lost

\* C29 as stated: a createOrRefresh call whose refresh affected zero rows
\* because the row was consumed inserts a new row and returns its code;
\* afterwards the key has exactly one active row and the consumed row is as
\* it was.
C29_LostRefreshInserts ==
    \A p \in Returned(ResendProcs, IssueOps) :
        LET l == loc[p]
        IN LostRefresh(l)
              => /\ l.corErr = "OK"
                 /\ Cardinality(ActiveRowsOfKey(l.vc)) = 1
                 /\ \E r \in ActiveRowsOfKey(l.vc) :
                       r.codeHash = hashToken(l.newCode) /\ r.createdAt = l.t
                 /\ ConsumedRowKept(l)

\* C29 amended: such a call goes on to insert a new row; it returns the
\* code of the row it inserted, or, when another call has inserted an active
\* row for the key in the meantime, its insert is rejected, it inserts
\* nothing and fails with the internal error; either way the key has exactly
\* one active row afterwards and the consumed row is as it was.
C29_LostRefreshInsertsOrYields ==
    \A p \in Returned(ResendProcs, IssueOps) :
        LET l == loc[p]
        IN LostRefresh(l)
              => /\ Cardinality(ActiveRowsOfKey(l.vc)) = 1
                 /\ ConsumedRowKept(l)
                 /\ IF l.corErr = "OK"
                    THEN /\ Len(codes) > l.rows0
                         /\ \E r \in ActiveRowsOfKey(l.vc) :
                               /\ r.codeHash = hashToken(l.newCode)
                               /\ r.createdAt = l.t
                               /\ r.id > l.rows0
                    ELSE /\ l.corErr = "ErrInternal"
                         /\ \E r \in ActiveRowsOfKey(l.vc) :
                               r.id # l.vc.id /\ r.id > l.rows0

\* A call whose refresh found its row consumed has inserted a new row and
\* returned its code.
C29_InsertedAfterLostRefresh ==
    \E p \in Returned(ResendProcs, IssueOps) :
        /\ LostRefresh(loc[p])
        /\ loc[p].corErr = "OK"
        /\ Len(codes) = loc[p].rows0 + 1

----------------------------------------------------------------------------
(* Properties of session validation *)

\* Both lifetimes of the session row the call read are within their limits
\* at the time of the call.
WithinLifetimes(l) ==
    /\ l.t - l.sess.createdAt <= AbsoluteTTL
    /\ l.t - l.sess.lastActiveAt <= SlidingTTL

\* C30: in a sequential run, GetAndExtend on an existing session returns the
\* owning user id exactly when now - created_at <= AbsoluteTTL and
\* now - last_active_at <= SlidingTTL, and ErrExpired otherwise; on success
\* the row has last_active_at = now and is otherwise as read, created_at
\* included; when the extend write fails the call succeeds all the same and
\* the row is as read.
C30_ValidateAndExtend ==
    \A p \in Returned(SeqProcs, {"GetAndExtend"}) :
        LET l == loc[p]
        IN l.sess.id # 0
              => /\ (l.res = "OK") <=> WithinLifetimes(l)
                 /\ l.res = "OK"
                       => /\ l.out = l.sess.userId
                          /\ SessionRows(l.sid)
                                = {IF l.writeErr THEN l.sess
                                   ELSE [l.sess EXCEPT !.lastActiveAt = l.t]}
                 /\ l.res # "OK" => (l.res = "ErrExpired" /\ l.out = 0)

\* A session that had been extended before has been validated although its
\* extend write failed.
C30_ValidatedThoughWriteFailed ==
    \E p \in Returned(SeqProcs, {"GetAndExtend"}) :
        /\ loc[p].res = "OK"
        /\ loc[p].writeErr
        /\ loc[p].sess.lastActiveAt > loc[p].sess.createdAt
        /\ loc[p].t > loc[p].sess.lastActiveAt

----------------------------------------------------------------------------
(* Properties of concurrent session validation *)

\* The row is expired by the timestamps it holds, at the instant t.
ExpiredAsStored(r, t) ==
    AbsoluteExpired(t, r.createdAt) \/ SlidingExpired(t, r.lastActiveAt)

\* The cleanup DELETE of the call p removes a row in this step.
CleanupRemoves(p, r) ==
    /\ pc[p] = "gae_delete"
    /\ pc'[p] = "done"
    /\ r.id = loc[p].sid
    /\ r \in sessions
    /\ r \notin sessions'

\* C31: GetAndExtend deletes a session row only if that row is expired by
\* the timestamps it holds when it is deleted: a row that another
\* GetAndExtend has just renewed is never deleted on the basis of the
\* timestamps read before the renewal.
C31_DeletesOnlyExpiredRows ==
    [][\A p \in ConcProcs : \A r \in sessions :
          CleanupRemoves(p, r) => ExpiredAsStored(r, loc[p].t)]_vars

----------------------------------------------------------------------------
(* Properties of session expiry *)

\* C32: once GetAndExtend has reported a session as expired, the row of the
\* session is gone, and every GetAndExtend that starts afterwards for that
\* id reports ErrNotFound and returns no user: the session is never accepted
\* again.
C32_ExpiredStaysRejected ==
    /\ \A sid \in hist.expired : SessionRows(sid) = {}
    /\ \A p \in Returned(ConcProcs, {"GetAndExtend"}) :
          loc[p].retry => (loc[p].res = "ErrNotFound" /\ loc[p].out = 0)

----------------------------------------------------------------------------
(* Properties of the two writes of ConfirmEmailVerification *)

\* The call has consumed a code row that was active when it began.
ConsumedByCall(l) ==
    \E i \in DOMAIN l.before.codes :
        ~l.before.codes[i].consumed /\ codes[i].consumed

\* The call has set email_verified of a user that was unverified when it
\* began.
VerifiedByCall(l) ==
    \E i \in DOMAIN l.before.users :
        ~l.before.users[i].emailVerified /\ users[i].emailVerified

\* C33: ConfirmEmailVerification is all-or-nothing: once it has returned,
\* it has consumed the code row if and only if it has set the user's
\* email_verified, and when it has returned an error it has done neither.
C33_ConfirmAllOrNothing ==
    \A p \in Returned(AcctProcs, {"Confirm"}) :
        /\ ConsumedByCall(loc[p]) <=> VerifiedByCall(loc[p])
        /\ loc[p].res # "OK" => (~ConsumedByCall(loc[p]) /\ ~VerifiedByCall(loc[p]))

----------------------------------------------------------------------------
(* Properties of the provider of an OAuth state *)

\* The callback of one provider has read a state row created for another.
OtherProvidersState(p) ==
    /\ loc[p].op = "OAuthCallback"
    /\ loc[p].st.state # 0
    /\ loc[p].st.provider # loc[p].provider

\* C34: HandleOAuthCallback accepts a state only for the provider it was
\* created for: a callback that reads a state row created for another
\* provider goes no further than the expiry test, its verifier is not used
\* in a code exchange, and it returns an error and no session.
C34_StateBoundToProvider ==
    \A p \in SeqProcs :
        OtherProvidersState(p) =>
            /\ pc[p] \in {"hoc_check", "done"}
            /\ pc[p] = "done" =>
                  /\ loc[p].res # "OK"
                  /\ loc[p].out = 0
                  /\ loc[p].state \notin hist.exchanged

----------------------------------------------------------------------------
(* Properties of the answer to a wrong code *)

\* The call p returns from its attempt increment in this step.
AnswersWrongCode(p) ==
    /\ pc[p] \in {"cev_inc", "vpr_inc"}
    /\ pc'[p] = "done"

\* The increment of the call p has counted on its row in this step.
IncrementCounted(p) ==
    codes'[loc[p].vc.id].attempts = codes[loc[p].vc.id].attempts + 1

\* C35: a wrong-code verify answers ErrTooManyAttempts only when the
\* increment has counted and the new attempts value has reached
\* max_attempts; when the increment matches no row, because the row was
\* consumed concurrently, the answer is ErrInvalidOTP.
C35_TooManyOnlyAtLimit ==
    [][\A p \in ConcProcs :
          AnswersWrongCode(p) =>
              /\ loc'[p].res = "ErrTooManyAttempts" =>
                    /\ IncrementCounted(p)
                    /\ codes'[loc[p].vc.id].attempts
                          >= codes'[loc[p].vc.id].maxAttempts
              /\ ~IncrementCounted(p) => loc'[p].res = "ErrInvalidOTP"]_vars

----------------------------------------------------------------------------
(* Properties of what a refused verify call writes *)

\* The call has changed nothing but the code rows.
OnlyCodesWritten(l) ==
    /\ users = l.before.users
    /\ tokens = l.before.tokens
    /\ sessions = l.before.sessions

\* The code rows as the call found them, with one more attempt on its row.
OneMoreAttempt(l) ==
    [l.before.codes EXCEPT ![l.vc.id] = [@ EXCEPT !.attempts = @ + 1]]

\* C36: a verify call that finds the active row expired reports invalid
\* and writes nothing: the attempts are not incremented and the row is not
\* consumed; a verify call with a wrong code on an unexpired row adds one
\* to the attempts of the row and changes nothing else: hash, expiry,
\* last_sent_at and consumed_at stay.
C36_RefusedVerifyWrites ==
    \A p \in Returned(AcctProcs, VerifyOps) :
        LET l == loc[p]
        IN l.vc.id # 0 =>
              /\ Expired(l.t, l.vc.expiresAt) =>
                    /\ l.res = "ErrInvalidOTP"
                    /\ codes = l.before.codes
                    /\ OnlyCodesWritten(l)
              /\ (~Expired(l.t, l.vc.expiresAt) /\ ~CodeMatches(l.code, l.vc)) =>
                    /\ l.res \in {"ErrInvalidOTP", "ErrTooManyAttempts"}
                    /\ codes = OneMoreAttempt(l)
                    /\ OnlyCodesWritten(l)

\* A password-reset code has been refused as wrong on an unexpired row that
\* had counted an attempt before, while an email-verify row is active.
C36_WrongCodeCounted ==
    \E p \in Returned(AcctProcs, {"VerifyReset"}) :
        /\ ~Expired(loc[p].t, loc[p].vc.expiresAt)
        /\ ~CodeMatches(loc[p].code, loc[p].vc)
        /\ loc[p].vc.attempts = 1
        /\ codes[loc[p].vc.id].attempts = 2
        /\ \E i \in DOMAIN codes :
              codes[i].purpose = EmailVerify /\ ~codes[i].consumed

----------------------------------------------------------------------------
(* Properties of what InitiatePasswordReset writes *)

\* The users that had the email when the call began.
UsersBefore(l) ==
    {i \in DOMAIN l.before.users : l.before.users[i].email = l.email}

\* The active password-reset rows of user id among the rows cs.
ActiveResetRows(cs, id) ==
    {i \in DOMAIN cs : /\ cs[i].userId = id
                       /\ cs[i].purpose = PasswordReset
                       /\ ~cs[i].consumed}

\* C37: InitiatePasswordReset for an email that no user has writes nothing:
\* no code row is created, no row is changed and no notification is
\* dispatched; for the email of a user who has no active password-reset
\* code it adds exactly one row, an active password-reset code of that
\* user, and leaves every other row as it was.
C37_InitiateWrites ==
    \A p \in Returned(AcctProcs, {"Initiate"}) :
        LET l == loc[p]
        IN /\ UsersBefore(l) = {} =>
                 /\ l.res = "OK"
                 /\ codes = l.before.codes
                 /\ users = l.before.users
                 /\ tokens = l.before.tokens
                 /\ outbox = l.before.outbox
           /\ \A i \in UsersBefore(l) :
                 ActiveResetRows(l.before.codes, users[i].id) = {} =>
                    /\ l.res = "OK"
                    /\ Len(codes) = Len(l.before.codes) + 1
                    /\ SubSeq(codes, 1, Len(l.before.codes)) = l.before.codes
                    /\ ActiveResetRows(codes, users[i].id) = {Len(codes)}
                    /\ codes[Len(codes)].contact = l.email
                    /\ users = l.before.users

\* A password-reset code has been issued, next to the email-verify code of
\* the user, by a call that found no password-reset row.
C37_ResetCodeIssued ==
    \E p \in Returned(AcctProcs, {"Initiate"}) :
        /\ loc[p].res = "OK"
        /\ UsersBefore(loc[p]) # {}
        /\ Len(loc[p].before.codes) = 1
        /\ Len(codes) = 2
        /\ codes[2].purpose = PasswordReset
        /\ ~codes[2].consumed

----------------------------------------------------------------------------
(* Properties of a refused FinalizePasswordReset *)

\* The unconsumed password-reset token rows that matched the token of the
\* call when it began.
RedeemableBefore(l) ==
    {t \in l.before.tokens : /\ t.tokenHash = hashToken(l.token)
                             /\ t.purpose = PasswordReset
                             /\ ~t.consumed}

\* The token of the call is empty, unknown, consumed or expired.
UnusableToken(l) ==
    \/ l.token = 0
    \/ RedeemableBefore(l) = {}
    \/ \E t \in RedeemableBefore(l) : Expired(l.t, t.expiresAt)

\* C38: FinalizePasswordReset with an empty, unknown, already consumed or
\* expired token reports ErrInvalidResetToken in each of these cases and
\* leaves the password hash of every user and every action token row as
\* they were.
C38_BadTokenChangesNothing ==
    \A p \in Returned(AcctProcs, {"Finalize"}) :
        UnusableToken(loc[p]) =>
            /\ loc[p].res = "ErrInvalidResetToken"
            /\ users = loc[p].before.users
            /\ tokens = loc[p].before.tokens

\* A token that was redeemed before has been presented again and refused.
C38_ConsumedTokenRefused ==
    \E p \in Returned(AcctProcs, {"Finalize"}) :
        /\ loc[p].token > 0
        /\ \E t \in loc[p].before.tokens :
              t.tokenHash = hashToken(loc[p].token) /\ t.consumed
        /\ loc[p].res = "ErrInvalidResetToken"

----------------------------------------------------------------------------
(* Properties of the purpose of a code *)

\* The user of the call was verified when the call began.
VerifiedBefore(l) ==
    \E i \in UsersBefore(l) : l.before.users[i].emailVerified

\* The rows of the other purposes are as the call found them.
OtherPurposesKept(l, purpose) ==
    \A i \in DOMAIN l.before.codes :
        l.before.codes[i].purpose # purpose => codes[i] = l.before.codes[i]

----------------------------------------------------------------------------
(* Properties of the sweep of the OAuth states *)

\* A step of the sweep that removes rows: the table changes and no handler
\* moves.
SweepRemoves == oauth' # oauth /\ pc' = pc

\* A row of the state value s is stored.
StateStored(s) == GetOAuthStateByState(s) # {}

====
